---- MODULE Spec2Model ----
(***************************************************************************)
(* Model of the jumplist_parser decoders.                                  *)
(*                                                                         *)
(*   DestList::from_reader            src/src/destlist.rs                  *)
(*   CustomDestinations::from_reader  src/src/custom_destinations.rs       *)
(*   JumplistParser::from_reader      src/src/lib.rs                       *)
(*                                                                         *)
(* A byte stream is a sequence of 0..255 and a cursor is a 0-based         *)
(* position into it.  An unsigned 32-bit field is carried as the four      *)
(* bytes read, least-significant first (a "word"): TLC's integers are      *)
(* signed 32-bit, so 0xFFFFFFFF has no integer value here.  Words are      *)
(* compared with U32Cmp, which is the order of the u32 values.             *)
(***************************************************************************)
EXTENDS Integers, Sequences, FiniteSets, TLC

\* ------------------------------------------------------------------------
\* Bounds of the model
\* ------------------------------------------------------------------------
MaxEntries == 2
MaxCats == 2

\* ------------------------------------------------------------------------
\* Primitive field reader
\* ------------------------------------------------------------------------
RECURSIVE Zeros(_)
Zeros(n) == IF n = 0 THEN <<>> ELSE <<0>> \o Zeros(n - 1)

\* the word of a small natural number (test inputs and literals of the code)
W(n) == <<n % 256, (n \div 256) % 256, (n \div 65536) % 256, n \div 16777216>>

\* u32 comparison: -1, 0, 1 as a < b, a = b, a > b
U32Cmp(a, b) ==
    IF a[4] # b[4] THEN (IF a[4] < b[4] THEN -1 ELSE 1)
    ELSE IF a[3] # b[3] THEN (IF a[3] < b[3] THEN -1 ELSE 1)
    ELSE IF a[2] # b[2] THEN (IF a[2] < b[2] THEN -1 ELSE 1)
    ELSE IF a[1] # b[1] THEN (IF a[1] < b[1] THEN -1 ELSE 1)
    ELSE 0

\* read_exact of n bytes at position p of a Cursor: the bytes left are those
\* from p on (none when p lies beyond the end); the read fails when fewer
\* than n are left, and a failed read sets the cursor to the length of the
\* stream, also when it stood beyond it.  A read of no bytes succeeds
\* wherever the cursor stands.
ReadBytes(s, p, n) ==
    IF n = 0 \/ p + n <= Len(s)
    THEN [ok |-> TRUE, val |-> SubSeq(s, p + 1, p + n), pos |-> p + n]
    ELSE [ok |-> FALSE, val |-> <<>>, pos |-> Len(s)]

\* a relative seek forward: on a Cursor (and on a File) it succeeds even when
\* the target lies beyond the end of the stream
SeekCurrent(s, p, n) == [ok |-> TRUE, pos |-> p + n]

read_u32(s, p) == ReadBytes(s, p, 4)

read_u16(s, p) ==
    LET r == ReadBytes(s, p, 2)
    IN  [ok |-> r.ok, val |-> IF r.ok THEN r.val[1] + 256 * r.val[2] ELSE 0,
         pos |-> r.pos]

\* the signed value of four little-endian bytes; it fits TLC's integers
I32Val(b) ==
    (IF b[4] >= 128 THEN (b[4] - 256) * 16777216 ELSE b[4] * 16777216)
      + b[3] * 65536 + b[2] * 256 + b[1]

read_i32(s, p) ==
    LET r == ReadBytes(s, p, 4)
    IN  [ok |-> r.ok, val |-> IF r.ok THEN I32Val(r.val) ELSE 0, pos |-> r.pos]

HexUpper == <<"0", "1", "2", "3", "4", "5", "6", "7",
              "8", "9", "A", "B", "C", "D", "E", "F">>
HexLower == <<"0", "1", "2", "3", "4", "5", "6", "7",
              "8", "9", "a", "b", "c", "d", "e", "f">>

\* {:02X} of one byte
Hex2(b) == HexUpper[(b \div 16) + 1] \o HexUpper[(b % 16) + 1]

\* Guid::from_reader followed by Display: data1 (u32 LE), data2 (u16 LE),
\* data3 (u16 LE), data4 (8 bytes), printed XXXXXXXX-XXXX-XXXX-XXXX-XXXXXXXXXXXX
GuidToString(g) ==
    Hex2(g[4]) \o Hex2(g[3]) \o Hex2(g[2]) \o Hex2(g[1]) \o "-"
      \o Hex2(g[6]) \o Hex2(g[5]) \o "-"
      \o Hex2(g[8]) \o Hex2(g[7]) \o "-"
      \o Hex2(g[9]) \o Hex2(g[10]) \o "-"
      \o Hex2(g[11]) \o Hex2(g[12]) \o Hex2(g[13])
      \o Hex2(g[14]) \o Hex2(g[15]) \o Hex2(g[16])

Guid_from_reader(s, p) ==
    LET r == ReadBytes(s, p, 16)
    IN  [ok |-> r.ok, val |-> IF r.ok THEN GuidToString(r.val) ELSE "",
         pos |-> r.pos]

\* format!("{:x?}", n) of a u32: lowercase hexadecimal, no prefix, no padding
RECURSIVE StripZeros(_)
StripZeros(ds) ==
    IF Len(ds) > 1 /\ ds[1] = 0 THEN StripZeros(Tail(ds)) ELSE ds

RECURSIVE HexDigits(_)
HexDigits(ds) ==
    IF ds = <<>> THEN "" ELSE HexLower[ds[1] + 1] \o HexDigits(Tail(ds))

\* {:08x}: the eight digits, zeros kept
HexNamePadded(w) ==
    HexDigits(<<w[4] \div 16, w[4] % 16, w[3] \div 16, w[3] % 16,
                w[2] \div 16, w[2] % 16, w[1] \div 16, w[1] % 16>>)

HexName(w) ==
    HexDigits(StripZeros(<<w[4] \div 16, w[4] % 16, w[3] \div 16, w[3] % 16,
                           w[2] \div 16, w[2] % 16, w[1] \div 16, w[1] % 16>>))

\* read_utf8_string(r, Some(n)): n bytes, trailing NUL padding trimmed
RECURSIVE TrimNul(_)
TrimNul(bs) ==
    IF bs # <<>> /\ bs[Len(bs)] = 0 THEN TrimNul(SubSeq(bs, 1, Len(bs) - 1))
    ELSE bs

read_utf8_string(s, p, n) ==
    LET r == ReadBytes(s, p, n)
    IN  [ok |-> r.ok, val |-> IF r.ok THEN TrimNul(r.val) ELSE <<>>,
         pos |-> r.pos]

\* read_utf16_string(r, Some(n)): n little-endian 16-bit code units
RECURSIVE Units(_)
Units(bs) ==
    IF Len(bs) < 2 THEN <<>>
    ELSE <<bs[1] + 256 * bs[2]>> \o Units(SubSeq(bs, 3, Len(bs)))

read_utf16_string(s, p, n) ==
    LET r == ReadBytes(s, p, 2 * n)
    IN  [ok |-> r.ok, val |-> IF r.ok THEN Units(r.val) ELSE <<>>,
         pos |-> r.pos]

\* ------------------------------------------------------------------------
\* DestList decoder (src/src/destlist.rs)
\* ------------------------------------------------------------------------
\* Option::None; Some(v) is the record [Some |-> v]
NoneVal == [None |-> TRUE]

\* a failed decode: the error and where the failed read left the cursor
DLErr(kind, text, line, p) ==
    [ok |-> FALSE, kind |-> kind, text |-> text, line |-> line, pos |-> p]

\* DestListHeader::from_reader
DestListHeader_from_reader(s, p) ==
    LET v  == read_u32(s, p)
        n  == read_u32(s, v.pos)
        pn == read_u32(s, n.pos)
        k  == SeekCurrent(s, pn.pos, 20)
    IN  IF ~v.ok THEN DLErr("DestListHeader", "Can't parse the 'version'",
                            41, v.pos)
        ELSE IF ~n.ok
        THEN DLErr("DestListHeader", "Can't parse the 'number_of_entries'",
                   48, n.pos)
        ELSE IF ~pn.ok
        THEN DLErr("DestListHeader",
                   "Can't parse the 'number_of_pinned_entries'", 55, pn.pos)
        ELSE IF ~k.ok
        THEN DLErr("DestListHeader", "Can't seek after the unknow bytes",
                   63, k.pos)
        ELSE [ok |-> TRUE, pos |-> k.pos,
              val |-> [version |-> v.val, number_of_entries |-> n.val,
                       number_of_pinned_entries |-> pn.val]]

ZeroHeader ==
    [version |-> W(0), number_of_entries |-> W(0),
     number_of_pinned_entries |-> W(0)]

\* the test taken as `version >= 1`
VersionGe1(version) == U32Cmp(version, W(1)) # -1

\* the test `version > 1` of the entry layout
VersionGt1(version) == U32Cmp(version, W(1)) = 1

\* the pin field taken as a count: zero is not pinned
PinedNonZero(w) == w # <<0, 0, 0, 0>>

\* the match on the pin field: 0xffffffff => false, _ => true
Pined(w) == w # <<255, 255, 255, 255>>

\* DestListEntry::from_reader
DestListEntry_from_reader(s, p, version) ==
    LET k1  == SeekCurrent(s, p, 8)
        g1  == Guid_from_reader(s, k1.pos)
        g2  == Guid_from_reader(s, g1.pos)
        g3  == Guid_from_reader(s, g2.pos)
        g4  == Guid_from_reader(s, g3.pos)
        h   == read_utf8_string(s, g4.pos, 16)
        en  == read_u32(s, h.pos)
        k2  == SeekCurrent(s, en.pos, 8)
        mt  == ReadBytes(s, k2.pos, 8)
        pin == read_u32(s, mt.pos)
        k3  == IF VersionGt1(version) THEN SeekCurrent(s, pin.pos, 16)
               ELSE [ok |-> TRUE, pos |-> pin.pos]
        ps  == read_u16(s, k3.pos)
        pth == read_utf16_string(s, ps.pos, ps.val)
        k4  == IF VersionGt1(version) THEN SeekCurrent(s, pth.pos, 4)
               ELSE [ok |-> TRUE, pos |-> pth.pos]
    IN  IF ~k1.ok
        THEN DLErr("DestListEntry", "Can't seek after unknown 8 bytes",
                   119, k1.pos)
        ELSE IF ~g1.ok
        THEN DLErr("DestListEntry", "Can't parse the 'volume_droid'",
                   126, g1.pos)
        ELSE IF ~g2.ok
        THEN DLErr("DestListEntry", "Can't parse the 'file_droid'",
                   133, g2.pos)
        ELSE IF ~g3.ok
        THEN DLErr("DestListEntry", "Can't parse the 'volume_birth_droid'",
                   140, g3.pos)
        ELSE IF ~g4.ok
        THEN DLErr("DestListEntry", "Can't parse the 'file_birth_droid'",
                   147, g4.pos)
        ELSE IF ~h.ok
        THEN DLErr("DestListEntry", "Can't parse the 'hostname'", 155, h.pos)
        ELSE IF ~en.ok
        THEN DLErr("DestListEntry", "Can't parse the 'entry_number'",
                   162, en.pos)
        ELSE IF ~k2.ok
        THEN DLErr("DestListEntry", "Can't seek after unknown 8 bytes",
                   170, k2.pos)
        ELSE IF ~mt.ok
        THEN DLErr("DestListEntry", "Can't parse the 'mtime'", 177, mt.pos)
        ELSE IF ~pin.ok
        THEN DLErr("DestListEntry", "Can't parse the 'pined'", 185, pin.pos)
        ELSE IF ~k3.ok
        THEN DLErr("DestListEntry", "Can't seek after unknown 16 bytes",
                   197, k3.pos)
        ELSE IF ~ps.ok
        THEN DLErr("DestListEntry", "Can't parse the 'path_size'", 205, ps.pos)
        ELSE IF ~pth.ok
        THEN DLErr("DestListEntry", "Can't parse the 'path'", 212, pth.pos)
        ELSE IF ~k4.ok
        THEN DLErr("DestListEntry", "Can't seek after unknown 4 bytes",
                   222, k4.pos)
        ELSE [ok |-> TRUE, pos |-> k4.pos,
              val |-> [volume_droid |-> g1.val, file_droid |-> g2.val,
                       volume_birth_droid |-> g3.val,
                       file_birth_droid |-> g4.val, hostname |-> h.val,
                       entry_number |-> en.val, mtime |-> mt.val,
                       pined |-> Pined(pin.val), path |-> pth.val,
                       lnk |-> NoneVal, entry_id |-> NoneVal]]

\* the stream attached whatever the shell-link decoder says of its bytes
process_lnk_unchecked(entry, lnk) == [entry EXCEPT !.lnk = [Some |-> lnk.name]]

\* DestListEntry::process_lnk: the shell-link decoder is external; whether it
\* accepts the bytes of a stream is part of the input (the stream's outcome)
process_lnk(entry, lnk) ==
    [entry EXCEPT !.lnk = IF lnk.outcome = "ok"
                          THEN [Some |-> lnk.name] ELSE NoneVal]

\* the `for lnk in ls` loop of DestList::from_reader, from index i on:
\* a stream whose open fails is skipped, a read_to_end that fails unwraps
RECURSIVE Correlate(_, _, _, _)
Correlate(entry, ls, i, opened) ==
    IF i > Len(ls) THEN [panic |-> FALSE, entry |-> entry, opened |-> opened]
    ELSE IF HexName(entry.entry_number) = ls[i].name
    THEN IF ls[i].outcome = "open_err"
         THEN Correlate(entry, ls, i + 1, Append(opened, ls[i].name))
         ELSE IF ls[i].outcome = "read_err"
         THEN [panic |-> TRUE, entry |-> entry,
               opened |-> Append(opened, ls[i].name)]
         ELSE Correlate(process_lnk(entry, ls[i]), ls, i + 1,
                        Append(opened, ls[i].name))
    ELSE Correlate(entry, ls, i + 1, opened)

\* the presence of a DestList entry taken for a non-empty stream
dlist_size_present(ls) ==
    IF ls.some /\ \E i \in 1..Len(ls.entries) : ls.entries[i].name = "DestList"
    THEN 1 ELSE 0

\* the size of the last listed entry named "DestList", 0 without one
RECURSIVE DListSize(_, _, _)
DListSize(ls, i, size) ==
    IF i > Len(ls) THEN size
    ELSE DListSize(ls, i + 1, IF ls[i].name = "DestList" THEN ls[i].len
                              ELSE size)

dlist_size(lnks) == IF lnks.some THEN DListSize(lnks.entries, 1, 0) ELSE 0

\* the comparison of the sort with its operands exchanged (ascending)
BeforeAscending(a, b) == U32Cmp(a.entry_number, b.entry_number) = -1

\* a comparison that also moves an entry ahead of its equals
BeforeOrEqual(a, b) == U32Cmp(b.entry_number, a.entry_number) # 1

\* entries.sort_by(|a, b| b.entry_number.cmp(&a.entry_number)): a stable sort,
\* greatest entry_number first.  Before(a, b): a must precede b.
Before(a, b) == U32Cmp(b.entry_number, a.entry_number) = -1

RECURSIVE InsertStable(_, _)
InsertStable(sorted, e) ==
    IF sorted = <<>> THEN <<e>>
    ELSE IF Before(e, sorted[Len(sorted)])
    THEN Append(InsertStable(SubSeq(sorted, 1, Len(sorted) - 1), e),
                sorted[Len(sorted)])
    ELSE Append(sorted, e)

RECURSIVE SortEntries(_)
SortEntries(es) ==
    IF es = <<>> THEN <<>>
    ELSE InsertStable(SortEntries(SubSeq(es, 1, Len(es) - 1)), es[Len(es)])

\* ------------------------------------------------------------------------
\* CustomDestinations decoder (src/src/custom_destinations.rs)
\* ------------------------------------------------------------------------
Some(v) == [Some |-> v]

CDErr(kind, text, arg, line) ==
    [status |-> "Err", kind |-> kind, text |-> text, arg |-> arg,
     line |-> line]

EofText == "failed to fill whole buffer"

\* the class id every embedded entry must carry
LnkClsid == "00021401-0000-0000-C000-000000000046"

\* CustomDestinationsHeader::from_reader
CustomDestinationsHeader_from_reader(s, p) ==
    LET v == read_u32(s, p)
        n == read_u32(s, v.pos)
        u == read_u32(s, n.pos)
    IN  IF ~v.ok
        THEN [status |-> "Err", pos |-> v.pos,
              err |-> CDErr("FileStructure", EofText, NoneVal, 51)]
        ELSE IF ~n.ok
        THEN [status |-> "Err", pos |-> n.pos,
              err |-> CDErr("FileStructure", EofText, NoneVal, 54)]
        ELSE IF ~u.ok
        THEN [status |-> "Err", pos |-> u.pos,
              err |-> CDErr("FileStructure", EofText, NoneVal, 57)]
        ELSE [status |-> "Ok", pos |-> u.pos,
              val |-> [version |-> v.val, num_of_cat |-> n.val,
                       unkonwn |-> u.val]]

\* LNKParser::from_reader: the external shell-link decoder.  What it accepts
\* at an offset, and how many bytes it then consumes, is part of the input
\* (orc); it cannot accept a record the stream does not hold in full.
LNKParser_from_reader(s, p, orc) ==
    IF p \in DOMAIN orc /\ orc[p].ok /\ p + orc[p].len <= Len(s)
    THEN [ok |-> TRUE, val |-> SubSeq(s, p + 1, p + orc[p].len),
          pos |-> p + orc[p].len]
    ELSE [ok |-> FALSE, val |-> <<>>, pos |-> p]

\* the class id is read but not checked
GuidUnchecked(g) == TRUE

\* the test of the class id read before an embedded entry
GuidIsLnk(g) == g = LnkClsid

\* the loop of the Custom and Task branches passing over an entry whose
\* class id is not the shell link's
RECURSIVE LnkEntriesSkipping(_, _, _, _, _, _, _, _, _)
LnkEntriesSkipping(s, p, orc, i, count, acc, invoked, text, lines) ==
    IF U32Cmp(W(i), count) # -1
    THEN [status |-> "Ok", pos |-> p, entries |-> acc, invoked |-> invoked]
    ELSE LET gd   == ReadBytes(s, p, 16)
             guid == GuidToString(gd.val)
             lnk  == LNKParser_from_reader(s, gd.pos, orc)
         IN  IF ~gd.ok
             THEN [status |-> "Err", pos |-> gd.pos, invoked |-> invoked,
                   err |-> CDErr("FileStructure", EofText, NoneVal, lines[1])]
             ELSE IF ~GuidIsLnk(guid)
             THEN LnkEntriesSkipping(s, gd.pos, orc, i + 1, count, acc,
                                     invoked, text, lines)
             ELSE IF ~lnk.ok
             THEN [status |-> "Err", pos |-> gd.pos,
                   invoked |-> invoked \cup {gd.pos},
                   err |-> CDErr("LnkEntry", "lnk", NoneVal, lines[3])]
             ELSE LnkEntriesSkipping(s, lnk.pos, orc, i + 1, count,
                                     Append(acc, lnk.val),
                                     invoked \cup {gd.pos}, text, lines)

\* the loop `for _ in 0..num_of_entries` of the Custom and Task branches,
\* from iteration i on; lines = <<line of the read, of the GUID error, of the
\* shell-link error>>
RECURSIVE LnkEntries(_, _, _, _, _, _, _, _, _)
LnkEntries(s, p, orc, i, count, acc, invoked, text, lines) ==
    IF U32Cmp(W(i), count) # -1
    THEN [status |-> "Ok", pos |-> p, entries |-> acc, invoked |-> invoked]
    ELSE LET gd   == ReadBytes(s, p, 16)
             guid == GuidToString(gd.val)
             lnk  == LNKParser_from_reader(s, gd.pos, orc)
         IN  IF ~gd.ok
             THEN [status |-> "Err", pos |-> gd.pos, invoked |-> invoked,
                   err |-> CDErr("FileStructure", EofText, NoneVal, lines[1])]
             ELSE IF ~GuidIsLnk(guid)
             THEN [status |-> "Err", pos |-> gd.pos, invoked |-> invoked,
                   err |-> CDErr("FileStructure", text, guid, lines[2])]
             ELSE IF ~lnk.ok
             THEN [status |-> "Err", pos |-> gd.pos,
                   invoked |-> invoked \cup {gd.pos},
                   err |-> CDErr("LnkEntry", "lnk", NoneVal, lines[3])]
             ELSE LnkEntries(s, lnk.pos, orc, i + 1, count,
                             Append(acc, lnk.val), invoked \cup {gd.pos},
                             text, lines)

\* the ids of Frequent and Recent exchanged
CategoryIDSwapped(x) ==
    IF x = 2 THEN "Frequent"
    ELSE IF x = 1 THEN "Recent"
    ELSE IF x = -1 THEN "None"
    ELSE [Unknown |-> x]

\* the match on the id of a Known category
CategoryID(x) ==
    IF x = 1 THEN "Frequent"
    ELSE IF x = 2 THEN "Recent"
    ELSE IF x = -1 THEN "None"
    ELSE [Unknown |-> x]

\* a discriminant outside 0..2 taken for a Task record
CatagoryTypeLenient(w) ==
    IF w = W(0) THEN "Custom"
    ELSE IF w = W(1) THEN "Known"
    ELSE "Task"

\* the match on the discriminant of a record
CatagoryType(w) ==
    IF w = W(0) THEN "Custom"
    ELSE IF w = W(1) THEN "Known"
    ELSE IF w = W(2) THEN "Task"
    ELSE "unknown"

Panic(p, line) == [status |-> "Panic", pos |-> p, line |-> line, invoked |-> {}]

\* the Custom branch with a failed count read taken for no entries
CustomBranchCountDefault(s, p, orc) ==
    LET nl   == read_u16(s, p)
        nm   == read_utf16_string(s, nl.pos, nl.val)
        name == IF nm.ok THEN Some(nm.val) ELSE NoneVal
        ne   == read_u32(s, nm.pos)
        cnt  == IF ne.ok THEN ne.val ELSE <<0, 0, 0, 0>>
        lp   == LnkEntries(s, ne.pos, orc, 0, cnt, <<>>, {},
                           "Custom Category with unknown entry GUID",
                           <<182, 194, 200>>)
    IN  IF ~nl.ok THEN Panic(nl.pos, 164)
        ELSE IF lp.status # "Ok" THEN lp
        ELSE [status |-> "Ok", pos |-> lp.pos, invoked |-> lp.invoked,
              cat |-> [type |-> "Custom", name |-> name,
                       num_of_entries |-> Some(cnt),
                       entries |-> Some(lp.entries), id |-> NoneVal]]

\* the Custom branch, after the discriminant
CustomBranch(s, p, orc) ==
    LET nl   == read_u16(s, p)
        nm   == read_utf16_string(s, nl.pos, nl.val)
        name == IF nm.ok THEN Some(nm.val) ELSE NoneVal
        ne   == read_u32(s, nm.pos)
        lp   == LnkEntries(s, ne.pos, orc, 0, ne.val, <<>>, {},
                           "Custom Category with unknown entry GUID",
                           <<182, 194, 200>>)
    IN  IF ~nl.ok THEN Panic(nl.pos, 164)
        ELSE IF ~ne.ok THEN Panic(ne.pos, 169)
        ELSE IF lp.status # "Ok" THEN lp
        ELSE [status |-> "Ok", pos |-> lp.pos, invoked |-> lp.invoked,
              cat |-> [type |-> "Custom", name |-> name,
                       num_of_entries |-> Some(ne.val),
                       entries |-> Some(lp.entries), id |-> NoneVal]]

\* the Known branch
KnownBranch(s, p) ==
    LET id == read_i32(s, p)
    IN  IF ~id.ok
        THEN [status |-> "Err", pos |-> id.pos, invoked |-> {},
              err |-> CDErr("FileStructure", EofText, NoneVal, 214)]
        ELSE [status |-> "Ok", pos |-> id.pos, invoked |-> {},
              cat |-> [type |-> "Known", name |-> NoneVal,
                       num_of_entries |-> NoneVal,
                       id |-> Some(CategoryID(id.val)), entries |-> NoneVal]]

\* the Task branch
TaskBranch(s, p, orc) ==
    LET ne == read_u32(s, p)
        lp == LnkEntries(s, ne.pos, orc, 0, ne.val, <<>>, {},
                         "Task Category with unknown entry GUID",
                         <<248, 260, 266>>)
    IN  IF ~ne.ok THEN Panic(ne.pos, 235)
        ELSE IF lp.status # "Ok" THEN lp
        ELSE [status |-> "Ok", pos |-> lp.pos, invoked |-> lp.invoked,
              cat |-> [type |-> "Task", name |-> NoneVal,
                       num_of_entries |-> Some(ne.val),
                       entries |-> Some(lp.entries), id |-> NoneVal]]

\* the footer of a record: a seek of 4 bytes
SkipFooter(s, p) == SeekCurrent(s, p, 4)

\* one iteration of the loop over the categories
DecodeCategory(s, p, orc) ==
    LET t  == read_u32(s, p)
        ty == CatagoryType(t.val)
        b  == IF ty = "Custom" THEN CustomBranch(s, t.pos, orc)
              ELSE IF ty = "Known" THEN KnownBranch(s, t.pos)
              ELSE TaskBranch(s, t.pos, orc)
        f  == SkipFooter(s, b.pos)
    IN  IF ~t.ok
        THEN [status |-> "Err", pos |-> t.pos, invoked |-> {},
              err |-> CDErr("FileStructure", EofText, NoneVal, 148)]
        ELSE IF ty = "unknown"
        THEN [status |-> "Err", pos |-> t.pos, invoked |-> {},
              err |-> CDErr("FileStructure", "CatagoryType unknown", t.val,
                            157)]
        ELSE IF b.status # "Ok" THEN b
        ELSE IF ~f.ok
        THEN [status |-> "Err", pos |-> f.pos, invoked |-> b.invoked,
              err |-> CDErr("FileStructure", "seek", NoneVal, 281)]
        ELSE [b EXCEPT !.pos = f.pos]

\* ------------------------------------------------------------------------
\* Inputs: byte streams laid out as the decoders read them
\* ------------------------------------------------------------------------
RECURSIVE Flatten(_)
Flatten(ss) == IF ss = <<>> THEN <<>> ELSE ss[1] \o Flatten(Tail(ss))

RECURSIVE UnitBytes(_)
UnitBytes(us) ==
    IF us = <<>> THEN <<>>
    ELSE <<us[1] % 256, us[1] \div 256>> \o UnitBytes(Tail(us))

U16Bytes(n) == <<n % 256, n \div 256>>

VolumeDroid == <<1, 2, 3, 4, 5, 6, 7, 8, 9, 10, 11, 12, 13, 14, 15, 16>>
FileDroid == <<17, 18, 19, 20, 21, 22, 23, 24, 25, 26, 27, 28, 29, 30, 31, 32>>
HostBytes == <<112, 99>> \o Zeros(14)
MTimeBytes == <<0, 128, 62, 213, 222, 177, 157, 1>>
NotPinned == <<255, 255, 255, 255>>

\* the entries the input streams are built from: [num, pin, path]
EntrySet ==
    { [num |-> W(5), pin |-> NotPinned, path |-> <<97>>],
      [num |-> W(12), pin |-> W(0), path |-> <<>>],
      [num |-> W(5), pin |-> <<254, 255, 255, 255>>, path |-> <<98>>] }

PartialEntry == [num |-> W(300), pin |-> W(2), path |-> <<99>>]

VersionSet == {W(0), W(1), W(2), W(3), W(256)}

EncHeader(version, n, pn) == version \o n \o pn \o Zeros(20)

EncEntry(d, version) ==
    Zeros(8) \o VolumeDroid \o FileDroid \o VolumeDroid \o FileDroid
      \o HostBytes \o d.num \o Zeros(8) \o MTimeBytes \o d.pin
      \o (IF VersionGt1(version) THEN Zeros(16) ELSE <<>>)
      \o U16Bytes(Len(d.path)) \o UnitBytes(d.path)
      \o (IF VersionGt1(version) THEN Zeros(4) ELSE <<>>)

EncEntries(ds, version) ==
    Flatten([i \in 1..Len(ds) |-> EncEntry(ds[i], version)])

SeqsUpTo(S, n) == UNION { [1..k -> S] : k \in 0..n }

CfbEntry(name, len, outcome) ==
    [name |-> name, len |-> len, outcome |-> outcome]

NoListing == [some |-> FALSE, entries |-> <<>>]
Listing(es) == [some |-> TRUE, entries |-> es]

\* the stream listings a DestList of n bytes is decoded with
Listings(n) ==
    { NoListing,
      Listing(<<CfbEntry("DestList", n, "ok")>>),
      Listing(<<CfbEntry("DestList", n, "ok"), CfbEntry("c", 9, "ok"),
                CfbEntry("5", 9, "lnk_err")>>),
      Listing(<<CfbEntry("DestList", n, "ok"), CfbEntry("c", 9, "open_err"),
                CfbEntry("5", 9, "read_err")>>),
      Listing(<<CfbEntry("DestList", n, "ok"), CfbEntry("C", 9, "ok"),
                CfbEntry("0c", 9, "ok"), CfbEntry("12", 9, "ok"),
                CfbEntry("0x5", 9, "ok")>>) }

\* CustomDestinations records
LnkBlob == <<76, 0, 0, 0, 1>>
LnkBlob2 == <<76, 0, 0, 0, 2>>
ClsidBytes == <<1, 20, 2, 0, 0, 0, 0, 0, 192, 0, 0, 0, 0, 0, 0, 70>>
OtherClsid == <<2, 20, 2, 0, 0, 0, 0, 0, 192, 0, 0, 0, 0, 0, 0, 70>>
Footer == <<171, 251, 191, 186>>

GoodLnk == [guid |-> ClsidBytes, ok |-> TRUE, blob |-> LnkBlob]
GoodLnk2 == [guid |-> ClsidBytes, ok |-> TRUE, blob |-> LnkBlob2]
BadGuid == [guid |-> OtherClsid, ok |-> TRUE, blob |-> LnkBlob]
BadLnk  == [guid |-> ClsidBytes, ok |-> FALSE, blob |-> LnkBlob]

CatSet ==
    { [type |-> W(1), id |-> W(1)],
      [type |-> W(1), id |-> W(2)],
      [type |-> W(1), id |-> <<255, 255, 255, 255>>],
      [type |-> W(1), id |-> W(7)],
      [type |-> W(0), name |-> <<97>>, lnks |-> <<GoodLnk>>],
      [type |-> W(0), name |-> <<>>, lnks |-> <<BadGuid>>],
      [type |-> W(2), lnks |-> <<GoodLnk, GoodLnk2>>],
      [type |-> W(2), lnks |-> <<BadLnk>>],
      [type |-> W(2), lnks |-> <<BadGuid>>],
      [type |-> W(2), lnks |-> <<GoodLnk, BadGuid>>],
      [type |-> W(2), lnks |-> <<>>],
      [type |-> W(3)] }

EncLnks(ls) == Flatten([i \in 1..Len(ls) |-> ls[i].guid \o ls[i].blob])

EncCat(d) ==
    d.type
      \o (IF d.type = W(0)
          THEN U16Bytes(Len(d.name)) \o UnitBytes(d.name)
                 \o W(Len(d.lnks)) \o EncLnks(d.lnks)
          ELSE IF d.type = W(1) THEN d.id
          ELSE IF d.type = W(2) THEN W(Len(d.lnks)) \o EncLnks(d.lnks)
          ELSE <<>>)
      \o Footer

EncCats(ds) == Flatten([i \in 1..Len(ds) |-> EncCat(ds[i])])

\* the offset of the first embedded entry of a record that starts at base
LnksBase(d, base) ==
    IF d.type = W(0) THEN base + 4 + 2 + 2 * Len(d.name) + 4 ELSE base + 8

\* the shell-link decoder's verdict at the offsets where records lie
RECURSIVE OracleOf(_, _)
OracleOf(ds, base) ==
    IF ds = <<>> THEN <<>>
    ELSE LET d == ds[1]
             here == IF d.type \in {W(0), W(2)}
                     THEN [q \in { LnksBase(d, base) + 21 * (j - 1) + 16 :
                                     j \in 1..Len(d.lnks) } |->
                             [ok |-> d.lnks[((q - LnksBase(d, base) - 16)
                                               \div 21) + 1].ok,
                              len |-> Len(LnkBlob)]]
                     ELSE <<>>
         IN  here @@ OracleOf(Tail(ds), base + Len(EncCat(d)))

\* the containers JumplistParser::from_reader is given: whether
\* CompoundFile::open accepts the file, what walk() lists, and the bytes of
\* the DestList stream
RootEntry == CfbEntry("Root Entry", 0, "ok")

Prefix(s, n) == SubSeq(s, 1, IF n < Len(s) THEN n ELSE Len(s))

DestListOf(ds, v) == EncHeader(v, W(Len(ds)), W(0)) \o EncEntries(ds, v)

AutomaticFiles ==
    { [type |-> "Automatic", valid |-> FALSE, entries |-> <<>>,
       oracle |-> <<>>, data |-> <<>>],
      [type |-> "Automatic", valid |-> TRUE, entries |-> <<RootEntry>>,
       oracle |-> <<>>, data |-> <<>>],
      [type |-> "Automatic", valid |-> TRUE,
       entries |-> <<RootEntry, CfbEntry("DestList", 0, "ok")>>,
       oracle |-> <<>>, data |-> <<>>],
      [type |-> "Automatic", valid |-> TRUE,
       entries |-> <<RootEntry, CfbEntry("c", 9, "ok"),
                     CfbEntry("DestList", 0, "ok")>>,
       oracle |-> <<>>, data |-> <<>>],
      [type |-> "Automatic", valid |-> TRUE,
       entries |-> <<RootEntry, CfbEntry("DestList", 5, "ok")>>,
       oracle |-> <<>>, data |-> <<3, 0, 0, 0, 1>>] }
    \cup
    { [type |-> "Automatic", valid |-> TRUE,
       entries |-> <<RootEntry, CfbEntry("DestList", Len(DestListOf(ds, v)),
                                         "ok"),
                     CfbEntry("c", 9, "ok"), CfbEntry("5", 9, out)>>,
       oracle |-> <<>>, data |-> DestListOf(ds, v)] :
        ds \in SeqsUpTo(EntrySet, 1), v \in VersionSet,
        out \in {"lnk_err", "read_err"} }
    \cup
    { [type |-> "Automatic", valid |-> TRUE,
       entries |-> <<RootEntry,
                     CfbEntry("DestList", Len(DestListOf(ds, W(3))), out),
                     CfbEntry("5", 9, "ok")>>,
       oracle |-> <<>>, data |-> DestListOf(ds, W(3))] :
        ds \in SeqsUpTo(EntrySet, 1), out \in {"open_err", "read_err"} }

CustomFiles ==
    { [type |-> "Custom", valid |-> TRUE, entries |-> <<>>,
       oracle |-> OracleOf(<<d>>, 12),
       data |-> Prefix(W(3) \o W(1) \o W(0) \o EncCat(d), n)] :
        d \in CatSet, n \in {11, 16, 24, 64} }

\* file names, as sequences of characters
AutoSuffix ==
    <<".", "a", "u", "t", "o", "m", "a", "t", "i", "c", "D", "e", "s", "t",
      "i", "n", "a", "t", "i", "o", "n", "s", "-", "m", "s">>
CustomSuffix ==
    <<".", "c", "u", "s", "t", "o", "m", "D", "e", "s", "t", "i", "n", "a",
      "t", "i", "o", "n", "s", "-", "m", "s">>

NameAuto == <<"a", "1">> \o AutoSuffix
NameCustom == <<"b">> \o CustomSuffix
NameBare == CustomSuffix
NameBoth == <<"b">> \o CustomSuffix \o AutoSuffix
NameBak == <<"a", "1">> \o AutoSuffix \o <<".", "b", "a", "k">>
NameLower ==
    <<"b", ".", "c", "u", "s", "t", "o", "m", "d", "e", "s", "t", "i", "n",
      "a", "t", "i", "o", "n", "s", "-", "m", "s">>
NameTxt == <<"c", ".", "t", "x", "t">>

\* the paths from_path is called with: a bare file name, a file in a
\* directory, and a file in a directory that carries a jump list suffix
PathSet ==
    { NameAuto, NameCustom, NameBare, NameBoth, NameBak, NameLower, NameTxt,
      <<"d", "/">> \o NameAuto,
      NameCustom \o <<"/">> \o NameTxt }

\* the first bytes of a compound file: signature, class id, minor and major
\* version, byte order mark, sector shift
CfbHead ==
    <<208, 207, 17, 224, 161, 177, 26, 225>> \o Zeros(16)
      \o <<62, 0, 3, 0, 254, 255, 9, 0>>

\* the contents of the file at the path: the bytes as CustomDestinations
\* reads them (raw; for a compound file, as far as that decoder gets), and
\* what the container reader makes of them (valid, entries, data)
ContentSet ==
    { [valid |-> TRUE,
       entries |-> <<RootEntry,
                     CfbEntry("DestList",
                              Len(DestListOf(<<[num |-> W(5),
                                                pin |-> NotPinned,
                                                path |-> <<97>>]>>, W(3))),
                              "ok"),
                     CfbEntry("5", 9, "ok")>>,
       oracle |-> <<>>,
       data |-> DestListOf(<<[num |-> W(5), pin |-> NotPinned,
                              path |-> <<97>>]>>, W(3)),
       raw |-> CfbHead],
      [valid |-> FALSE, entries |-> <<>>,
       oracle |-> OracleOf(<<[type |-> W(2), lnks |-> <<GoodLnk>>]>>, 12),
       data |-> <<>>,
       raw |-> W(3) \o W(1) \o W(0)
                 \o EncCat([type |-> W(2), lnks |-> <<GoodLnk>>])],
      [valid |-> FALSE, entries |-> <<>>, oracle |-> <<>>, data |-> <<>>,
       raw |-> <<>>] }

\* the application names known by id (crate::appids::APPID_TO_NAME), a
\* table of one entry
APPID_TO_NAME == [k \in {<<"a", "1">>} |-> "App"]

\* ------------------------------------------------------------------------
\* State
\* ------------------------------------------------------------------------
VARIABLES
    op,          \* the entry point called: "DestList", "Custom", "Jumplist",
                 \* "Path", "CustomPath", "HeaderPath"
    file,        \* the file given to JumplistParser::from_reader
    stream,      \* r: the bytes the decoder reads
    lnks,        \* the stream listing given to DestList::from_reader
    oracle,      \* the shell-link decoder's verdict per stream offset
    input,       \* what the stream was built from
    pc,          \* position of the running call
    pos,         \* the cursor of r
    header,      \* the decoded header
    entries,     \* DestList::from_reader's entries vector
    decoded,     \* the entries in the order they were decoded
    opened,      \* the names of the streams open_stream was asked for
    categories,  \* CustomDestinations::from_reader's categories vector
    cat_i,       \* iterations of the category loop completed
    lnk_invoked, \* the offsets LNKParser::from_reader was called at
    result,      \* what the decoder returned
    jl_result,   \* what JumplistParser::from_reader or from_path returned
    flat         \* the mappings normalize / flaten made of the result

vars == <<op, file, stream, lnks, oracle, input, pc, pos, header, entries,
          decoded, opened, categories, cat_i, lnk_invoked, result, jl_result,
          flat>>

Running == [status |-> "Running"]
NoFile ==
    [type |-> "None", valid |-> FALSE, entries |-> <<>>, oracle |-> <<>>,
     data |-> <<>>]

InitCommon ==
    /\ pos = 0
    /\ header = NoneVal
    /\ entries = <<>>
    /\ decoded = <<>>
    /\ opened = <<>>
    /\ categories = <<>>
    /\ cat_i = 0
    /\ lnk_invoked = {}
    /\ result = Running
    /\ jl_result = Running
    /\ flat = NoneVal

\* DestList::from_reader on a stream of complete entries followed by the
\* first cut bytes of one more entry
InitDestList ==
    \E v \in VersionSet, ds \in SeqsUpTo(EntrySet, MaxEntries) :
      \E cut \in 0..(Len(EncEntry(PartialEntry, v)) - 1) :
        LET s == EncHeader(v, W(Len(ds)), W(0)) \o EncEntries(ds, v)
                   \o SubSeq(EncEntry(PartialEntry, v), 1, cut)
        IN  \E l \in Listings(Len(s)) :
              /\ op = "DestList"
              /\ file = NoFile
              /\ stream = s
              /\ lnks = l
              /\ oracle = <<>>
              /\ input = [version |-> v, entries |-> ds, cut |-> cut]
              /\ pc = "dl_begin"
              /\ InitCommon

\* the values a header count is given apart from the number of entries
CountSet == {W(0), W(1), W(5), <<255, 255, 255, 255>>}

\* DestList::from_reader on a stream of complete entries under a header
\* whose two counts are anything
InitCountedDestList ==
    \E v \in {W(1), W(3)}, ds \in SeqsUpTo(EntrySet, MaxEntries) :
      \E n \in CountSet, pn \in CountSet :
        LET s == EncHeader(v, n, pn) \o EncEntries(ds, v)
        IN  \E l \in Listings(Len(s)) :
              /\ op = "DestList"
              /\ file = NoFile
              /\ stream = s
              /\ lnks = l
              /\ oracle = <<>>
              /\ input = [version |-> v, entries |-> ds, cut |-> 0]
              /\ pc = "dl_begin"
              /\ InitCommon

\* DestList::from_reader on a stream that ends inside the header
InitShortDestList ==
    \E n \in {0, 3, 11, 12, 31} :
      LET s == SubSeq(EncHeader(W(3), W(0), W(0)), 1, n)
      IN  \E l \in Listings(n) :
            /\ op = "DestList"
            /\ file = NoFile
            /\ stream = s
            /\ lnks = l
            /\ oracle = <<>>
            /\ input = [version |-> W(3), entries |-> <<>>, cut |-> -1]
            /\ pc = "dl_begin"
            /\ InitCommon

\* CustomDestinations::from_reader on a stream of records, cut somewhere in
\* the last one (or not at all), under a header that declares n categories
InitCustom ==
    \E cs \in SeqsUpTo(CatSet, MaxCats) :
      LET full == W(3) \o W(0) \o W(0) \o EncCats(cs)
          from == IF cs = <<>> THEN 0
                  ELSE Len(full) - Len(EncCat(cs[Len(cs)]))
      IN  \E cut \in from..Len(full),
             n \in { m \in {Len(cs) - 1, Len(cs), Len(cs) + 1} : m >= 0 } :
            /\ op = "Custom"
            /\ file = NoFile
            /\ stream = SubSeq(W(3) \o W(n) \o W(0) \o EncCats(cs), 1, cut)
            /\ lnks = NoListing
            /\ oracle = OracleOf(cs, 12)
            /\ input = [cats |-> cs, cut |-> cut, declared |-> n]
            /\ pc = "cd_begin"
            /\ InitCommon

\* JumplistParser::from_reader
InitJumplist ==
    \E f \in AutomaticFiles \cup CustomFiles :
      /\ op = "Jumplist"
      /\ file = f
      /\ stream = IF f.type = "Custom" THEN f.data ELSE <<>>
      /\ lnks = NoListing
      /\ oracle = f.oracle
      /\ input = [file |-> f]
      /\ pc = "jl_begin"
      /\ InitCommon

\* JumplistParser::from_path: a path, whether the file there can be opened
\* and read, and its contents
InitPath ==
    \E p \in PathSet, c \in ContentSet, io \in {"ok", "open_err", "read_err"} :
      /\ op = "Path"
      /\ file = NoFile
      /\ stream = <<>>
      /\ lnks = NoListing
      /\ oracle = <<>>
      /\ input = [path |-> p, io |-> io, content |-> c]
      /\ pc = "path_begin"
      /\ InitCommon

\* CustomDestinations::from_path: whether the file can be opened, and its
\* contents: one record, whole or with its footer cut, under a header that
\* declares one category or two
InitCustomPath ==
    \E cs \in SeqsUpTo(CatSet, 1), io \in {"ok", "open_err"} :
      LET full == W(3) \o W(0) \o W(0) \o EncCats(cs)
      IN  \E cut \in {Len(full) - 2, Len(full)},
             n \in {Len(cs), Len(cs) + 1} :
            /\ op = "CustomPath"
            /\ file = NoFile
            /\ stream = <<>>
            /\ lnks = NoListing
            /\ oracle = OracleOf(cs, 12)
            /\ input = [cats |-> cs, cut |-> cut, declared |-> n, io |-> io,
                        content |-> SubSeq(W(3) \o W(n) \o W(0)
                                             \o EncCats(cs), 1, cut)]
            /\ pc = "cp_begin"
            /\ InitCommon

\* the lengths a file given to CustomDestinationsHeader::from_path is cut to
HeaderCuts == {0, 3, 4, 7, 8, 11, 12, 20}

\* CustomDestinationsHeader::from_path: whether the file can be opened, and
\* its contents: a header and a Known record, cut somewhere
InitHeaderPath ==
    \E io \in {"ok", "open_err"}, n \in CountSet, cut \in HeaderCuts,
       v \in {W(2), W(3)} :
      /\ op = "HeaderPath"
      /\ file = NoFile
      /\ stream = <<>>
      /\ lnks = NoListing
      /\ oracle = <<>>
      /\ input = [io |-> io,
                  content |-> SubSeq(v \o n \o W(0) \o W(1) \o W(2), 1, cut)]
      /\ pc = "hp_begin"
      /\ InitCommon

Init ==
    InitDestList \/ InitShortDestList \/ InitCustom \/ InitCustomPath
      \/ InitHeaderPath \/ InitJumplist \/ InitPath

\* ------------------------------------------------------------------------
\* DestList::from_reader
\* ------------------------------------------------------------------------
\* where a finished decoder returns to
Return == IF op \in {"Jumplist", "Path"} THEN "jl_wrap" ELSE "done"

\* lines 267-289: the header is decoded only when the listing names a
\* DestList stream of non-zero length
DestListBegin ==
    /\ pc = "dl_begin"
    /\ \E h \in {IF dlist_size(lnks) = 0
                 THEN [ok |-> TRUE, pos |-> pos, val |-> ZeroHeader]
                 ELSE DestListHeader_from_reader(stream, pos)} :
           IF h.ok
           THEN /\ header' = h.val
                /\ pos' = h.pos
                /\ pc' = "dl_loop"
                /\ result' = result
           ELSE /\ result' = CDErr(h.kind, h.text, NoneVal, h.line)
                /\ pos' = h.pos
                /\ pc' = Return
                /\ header' = header
    /\ UNCHANGED <<flat, op, file, stream, lnks, oracle, input, entries, decoded,
                   opened, categories, cat_i, lnk_invoked, jl_result>>

\* a correlation that also records the stream name as the entry's id
CorrelatedTagged(e, listing, op_names) ==
    IF ~e.ok THEN [ok |-> FALSE, panic |-> FALSE]
    ELSE IF listing.some
    THEN LET c == Correlate(e.val, listing.entries, 1, op_names)
         IN  [ok |-> TRUE, panic |-> c.panic, pos |-> e.pos,
              entry |-> [c.entry EXCEPT
                           !.entry_id = Some(HexName(e.val.entry_number))],
              opened |-> c.opened]
    ELSE [ok |-> TRUE, panic |-> FALSE, pos |-> e.pos, entry |-> e.val,
          opened |-> op_names]

\* an entry that decoded, correlated with the listing if there is one
Correlated(e, listing, op_names) ==
    IF ~e.ok THEN [ok |-> FALSE, panic |-> FALSE]
    ELSE IF listing.some
    THEN LET c == Correlate(e.val, listing.entries, 1, op_names)
         IN  [ok |-> TRUE, panic |-> c.panic, pos |-> e.pos,
              entry |-> c.entry, opened |-> c.opened]
    ELSE [ok |-> TRUE, panic |-> FALSE, pos |-> e.pos, entry |-> e.val,
          opened |-> op_names]

\* the body of one iteration of the loop at lines 291-327
NextEntry ==
    Correlated(DestListEntry_from_reader(stream, pos, header.version),
               lnks, opened)

\* lines 291-327, one iteration that pushes an entry
DestListEntryStep ==
    /\ pc = "dl_loop"
    /\ \E n \in {NextEntry} :
         /\ n.ok /\ ~n.panic
         /\ entries' = Append(entries, n.entry)
         /\ decoded' = Append(decoded, n.entry)
         /\ opened' = n.opened
         /\ pos' = n.pos
    /\ UNCHANGED <<flat, op, file, stream, lnks, oracle, input, pc, header,
                   categories, cat_i, lnk_invoked, result, jl_result>>

\* line 305: read_to_end(..).unwrap() on a stream that cannot be read
DestListEntryPanic ==
    /\ pc = "dl_loop"
    /\ \E n \in {NextEntry} :
         /\ n.ok /\ n.panic
         /\ opened' = n.opened
         /\ pos' = n.pos
    /\ result' = [status |-> "Panic", line |-> 305]
    /\ jl_result' = IF op \in {"Jumplist", "Path"}
                    THEN [status |-> "Panic", line |-> 305]
                    ELSE jl_result
    /\ pc' = "done"
    /\ UNCHANGED <<flat, op, file, stream, lnks, oracle, input, header, entries,
                   decoded, categories, cat_i, lnk_invoked>>

\* a failed entry decode that does not leave the loop
DestListFinishStay ==
    /\ pc = "dl_loop"
    /\ \E e \in {DestListEntry_from_reader(stream, pos, header.version)} :
         /\ ~e.ok
         /\ pos' = e.pos
    /\ \E sorted \in {SortEntries(entries)} :
         /\ entries' = sorted
         /\ result' = [status |-> "Ok", header |-> header,
                       entries |-> sorted]
    /\ UNCHANGED <<flat, op, file, stream, lnks, oracle, input, pc, header,
                   decoded, opened, categories, cat_i, lnk_invoked,
                   jl_result>>

\* a loop that is also over once it holds header.number_of_entries entries
DestListFinishCounted ==
    /\ pc = "dl_loop"
    /\ \E e \in {DestListEntry_from_reader(stream, pos, header.version)} :
         \/ /\ ~e.ok
            /\ pos' = e.pos
         \/ /\ U32Cmp(W(Len(entries)), header.number_of_entries) # -1
            /\ pos' = pos
    /\ \E sorted \in {SortEntries(entries)} :
         /\ entries' = sorted
         /\ result' = [status |-> "Ok", header |-> header,
                       entries |-> sorted]
    /\ pc' = Return
    /\ UNCHANGED <<flat, op, file, stream, lnks, oracle, input, header,
                   decoded, opened, categories, cat_i, lnk_invoked,
                   jl_result>>

\* lines 321/325 and 329-331: the first entry that fails to decode ends the
\* loop, the cursor left where the failed decode left it; the entries are
\* sorted and returned
DestListFinish ==
    /\ pc = "dl_loop"
    /\ \E e \in {DestListEntry_from_reader(stream, pos, header.version)} :
         /\ ~e.ok
         /\ pos' = e.pos
    /\ \E sorted \in {SortEntries(entries)} :
         /\ entries' = sorted
         /\ result' = [status |-> "Ok", header |-> header,
                       entries |-> sorted]
    /\ pc' = Return
    /\ UNCHANGED <<flat, op, file, stream, lnks, oracle, input, header,
                   decoded, opened, categories, cat_i, lnk_invoked,
                   jl_result>>

\* ------------------------------------------------------------------------
\* CustomDestinations::from_reader
\* ------------------------------------------------------------------------
\* CustomDestinationsHeader::from_path, lines 42-47: File::open, whose error
\* is returned as General, then CustomDestinationsHeader::from_reader on the
\* File; the header is what the call returns
HeaderFromPath ==
    /\ pc = "hp_begin"
    /\ IF input.io = "open_err"
       THEN /\ result' = CDErr("General", "open", NoneVal, 44)
            /\ UNCHANGED <<stream, header, pos>>
       ELSE /\ stream' = input.content
            /\ \E h \in {CustomDestinationsHeader_from_reader(input.content,
                                                              pos)} :
                 /\ pos' = h.pos
                 /\ IF h.status = "Ok"
                    THEN /\ header' = h.val
                         /\ result' = [status |-> "Ok", header |-> h.val]
                    ELSE /\ header' = header
                         /\ result' = h.err
    /\ pc' = "done"
    /\ UNCHANGED <<flat, op, file, lnks, oracle, input, entries, decoded,
                   opened, categories, cat_i, lnk_invoked, jl_result>>

\* CustomDestinations::from_path, lines 134-139: File::open, whose error is
\* returned as FileStructure, then from_reader on the File
CustomFromPath ==
    /\ pc = "cp_begin"
    /\ IF input.io = "open_err"
       THEN /\ result' = CDErr("FileStructure", "open", NoneVal, 136)
            /\ pc' = "done"
            /\ stream' = stream
       ELSE /\ stream' = input.content
            /\ pc' = "cd_begin"
            /\ result' = result
    /\ UNCHANGED <<flat, op, file, lnks, oracle, input, pos, header, entries,
                   decoded, opened, categories, cat_i, lnk_invoked,
                   jl_result>>

\* where a failed read leaves the cursor that stood at p: a Cursor at the
\* end of the stream (q), a File (the reader of from_path) also there,
\* unless it stood beyond the end, where it stays
FailedReadPos(p, q) ==
    IF op = "CustomPath" /\ p > q THEN p ELSE q

\* line 143
CustomBegin ==
    /\ pc = "cd_begin"
    /\ \E h \in {CustomDestinationsHeader_from_reader(stream, pos)} :
           IF h.status = "Ok"
           THEN /\ header' = h.val
                /\ pos' = h.pos
                /\ pc' = "cd_loop"
                /\ result' = result
           ELSE /\ result' = h.err
                /\ pos' = h.pos
                /\ pc' = Return
                /\ header' = header
    /\ UNCHANGED <<flat, op, file, stream, lnks, oracle, input, entries, decoded,
                   opened, categories, cat_i, lnk_invoked, jl_result>>

\* the loop bound taken one too small
MoreCategoriesOffByOne == U32Cmp(W(cat_i + 1), header.num_of_cat) = -1

\* the loop `for _ in 0..header.num_of_cat` has iterations left
MoreCategories == U32Cmp(W(cat_i), header.num_of_cat) = -1

\* lines 146-283, one iteration that pushes a category
CustomCategoryStep ==
    /\ pc = "cd_loop"
    /\ MoreCategories
    /\ \E c \in {DecodeCategory(stream, pos, oracle)} :
           /\ c.status = "Ok"
           /\ categories' = Append(categories, c.cat)
           /\ cat_i' = cat_i + 1
           /\ pos' = c.pos
           /\ lnk_invoked' = lnk_invoked \cup c.invoked
    /\ UNCHANGED <<flat, op, file, stream, lnks, oracle, input, pc, header,
                   entries, decoded, opened, result, jl_result>>

\* an iteration that returns an error: the accumulated categories are dropped
CustomCategoryErr ==
    /\ pc = "cd_loop"
    /\ MoreCategories
    /\ \E c \in {DecodeCategory(stream, pos, oracle)} :
           /\ c.status = "Err"
           /\ result' = c.err
           /\ pos' = FailedReadPos(pos, c.pos)
           /\ lnk_invoked' = lnk_invoked \cup c.invoked
    /\ pc' = Return
    /\ UNCHANGED <<flat, op, file, stream, lnks, oracle, input, header, entries,
                   decoded, opened, categories, cat_i, jl_result>>

\* an iteration that unwraps a failed read (lines 164, 169, 235)
CustomCategoryPanic ==
    /\ pc = "cd_loop"
    /\ MoreCategories
    /\ \E c \in {DecodeCategory(stream, pos, oracle)} :
           /\ c.status = "Panic"
           /\ result' = [status |-> "Panic", line |-> c.line]
           /\ jl_result' = IF op \in {"Jumplist", "Path"}
                           THEN [status |-> "Panic", line |-> c.line]
                           ELSE jl_result
           /\ pos' = c.pos
    /\ pc' = "done"
    /\ UNCHANGED <<flat, op, file, stream, lnks, oracle, input, header, entries,
                   decoded, opened, categories, cat_i, lnk_invoked>>

\* lines 285-288
CustomFinish ==
    /\ pc = "cd_loop"
    /\ ~MoreCategories
    /\ result' = [status |-> "Ok", header |-> header, entries |-> categories]
    /\ pc' = Return
    /\ UNCHANGED <<flat, op, file, stream, lnks, oracle, input, pos, header,
                   entries, decoded, opened, categories, cat_i, lnk_invoked,
                   jl_result>>

\* ------------------------------------------------------------------------
\* JumplistParser::from_reader (src/src/lib.rs)
\* ------------------------------------------------------------------------
\* the DestList entries of non-zero length that lines 95-110 open
HasDestListData(es) ==
    \E i \in 1..Len(es) : es[i].name = "DestList" /\ es[i].len > 0

\* where from_reader returns to
JlReturn == IF op = "Path" THEN "path_wrap" ELSE "done"

\* lines 95-110, from entry i of the listing on: every entry named DestList
\* of non-zero length has open_stream("DestList") called and the stream read
\* to its end, both unwrapped; got is the data fetched so far, names the
\* streams asked for
RECURSIVE FetchDestList(_, _, _, _, _)
FetchDestList(es, i, data, got, names) ==
    IF i > Len(es) THEN [panic |-> FALSE, data |-> got, opened |-> names]
    ELSE IF es[i].name = "DestList" /\ es[i].len > 0
    THEN IF es[i].outcome = "open_err"
         THEN [panic |-> TRUE, line |-> 99,
               opened |-> Append(names, "DestList")]
         ELSE IF es[i].outcome = "read_err"
         THEN [panic |-> TRUE, line |-> 101,
               opened |-> Append(names, "DestList")]
         ELSE FetchDestList(es, i + 1, data, data,
                            Append(names, "DestList"))
    ELSE FetchDestList(es, i + 1, data, got, names)

\* lines 80-115: open the container, list it, fetch the DestList stream
JumplistAutomatic ==
    /\ pc = "jl_begin"
    /\ file.type = "Automatic"
    /\ IF ~file.valid
       THEN /\ jl_result' = CDErr("FileStructure", "Unable to parse the file",
                                  NoneVal, 87)
            /\ pc' = JlReturn
            /\ UNCHANGED <<stream, lnks, opened>>
       ELSE \E f \in {FetchDestList(file.entries, 1, file.data, <<>>,
                                    opened)} :
              IF f.panic
              THEN /\ jl_result' = [status |-> "Panic", line |-> f.line]
                   /\ opened' = f.opened
                   /\ pc' = "done"
                   /\ UNCHANGED <<stream, lnks>>
              ELSE /\ stream' = f.data
                   /\ opened' = f.opened
                   /\ lnks' = Listing(file.entries)
                   /\ pc' = "dl_begin"
                   /\ jl_result' = jl_result
    /\ UNCHANGED <<flat, op, file, oracle, input, pos, header, entries, decoded,
                   categories, cat_i, lnk_invoked, result>>

\* line 140
JumplistCustom ==
    /\ pc = "jl_begin"
    /\ file.type = "Custom"
    /\ pc' = "cd_begin"
    /\ UNCHANGED <<flat, op, file, stream, lnks, oracle, input, pos, header,
                   entries, decoded, opened, categories, cat_i, lnk_invoked,
                   result, jl_result>>

\* lines 117-137 and 140-147: a DestList error becomes NoDestList, a
\* CustomDestinations error is passed on
JumplistWrap ==
    /\ pc = "jl_wrap"
    /\ jl_result' =
         IF result.status = "Ok"
         THEN [status |-> "Ok", app_id |-> NoneVal, app_name |-> NoneVal,
               type |-> file.type, source_path |-> NoneVal, data |-> result]
         ELSE IF file.type = "Automatic"
         THEN CDErr("NoDestList",
                    "No entry with the name 'DestList' (Empty JumpList)",
                    NoneVal, 134)
         ELSE result
    /\ pc' = JlReturn
    /\ UNCHANGED <<flat, op, file, stream, lnks, oracle, input, pos, header,
                   entries, decoded, opened, categories, cat_i, lnk_invoked,
                   result>>

\* ------------------------------------------------------------------------
\* JumplistParser::from_path (src/src/lib.rs)
\* ------------------------------------------------------------------------
\* a suffix found anywhere in the name
EndsWithAnywhere(s, suf) ==
    \E i \in 0..(Len(s) - Len(suf)) : SubSeq(s, i + 1, i + Len(suf)) = suf

\* str::ends_with
EndsWith(s, suf) ==
    /\ Len(s) >= Len(suf)
    /\ SubSeq(s, Len(s) - Len(suf) + 1, Len(s)) = suf

\* PathBuf::file_name of a path that does not end in a separator: the last
\* component, none for ".."
RECURSIVE LastComponent(_)
LastComponent(path) ==
    IF \E i \in 1..Len(path) : path[i] = "/"
    THEN LastComponent(Tail(path)) ELSE path

FileName(path) ==
    IF LastComponent(path) = <<".", ".">> THEN <<>> ELSE LastComponent(path)

\* file_name.split('.').next(): the characters before the first '.'
RECURSIVE Stem(_)
Stem(name) ==
    IF name = <<>> \/ name[1] = "." THEN <<>>
    ELSE <<name[1]>> \o Stem(Tail(name))

\* lines 205-217: the type the file name stands for, "Unknown" for neither
\* suffix
JumplistTypeOf(file_name) ==
    IF EndsWith(file_name, AutoSuffix) THEN "Automatic"
    ELSE IF EndsWith(file_name, CustomSuffix) THEN "Custom"
    ELSE "Unknown"

\* lines 177-226: open and read the file, then choose the decoder by the
\* file name and hand the bytes to from_reader
PathDispatch ==
    /\ pc = "path_begin"
    /\ \E ty \in {JumplistTypeOf(FileName(input.path))} :
         IF input.io = "open_err"
         THEN /\ jl_result' = CDErr("JumplistParser", "Can't open the file",
                                    input.path, 181)
              /\ pc' = "done"
              /\ UNCHANGED <<file, stream, oracle>>
         ELSE IF input.io = "read_err"
         THEN /\ jl_result' = CDErr("JumplistParser", "Can't read the file",
                                    input.path, 190)
              /\ pc' = "done"
              /\ UNCHANGED <<file, stream, oracle>>
         ELSE IF ty = "Unknown"
         THEN /\ jl_result' = CDErr("FileType", "", FileName(input.path), 212)
              /\ pc' = "done"
              /\ UNCHANGED <<file, stream, oracle>>
         ELSE /\ file' = [type |-> ty, valid |-> input.content.valid,
                          entries |-> input.content.entries,
                          oracle |-> input.content.oracle,
                          data |-> IF ty = "Custom" THEN input.content.raw
                                   ELSE input.content.data]
              /\ stream' = IF ty = "Custom" THEN input.content.raw ELSE <<>>
              /\ oracle' = input.content.oracle
              /\ pc' = "jl_begin"
              /\ jl_result' = jl_result
    /\ UNCHANGED <<flat, op, lnks, input, pos, header, entries, decoded, opened,
                   categories, cat_i, lnk_invoked, result>>

\* lines 219-235: the identity fields are attached to an Ok result
PathFinish ==
    /\ pc = "path_wrap"
    /\ \E id \in {Stem(FileName(input.path))} :
         jl_result' =
           IF jl_result.status = "Ok"
           THEN [jl_result EXCEPT
                   !.app_id = Some(id),
                   !.app_name = Some(IF id \in DOMAIN APPID_TO_NAME
                                     THEN APPID_TO_NAME[id] ELSE ""),
                   !.source_path = Some(input.path)]
           ELSE jl_result
    /\ pc' = "done"
    /\ UNCHANGED <<flat, op, file, stream, lnks, oracle, input, pos, header,
                   entries, decoded, opened, categories, cat_i, lnk_invoked,
                   result>>

\* ------------------------------------------------------------------------
\* Normalization (Normalize, _Normalize and Flaten)
\* ------------------------------------------------------------------------
\* what the external shell-link decoder makes of a decoded shell-link: its
\* own normalized field set (normalize), its display name (get_name_string)
\* and its command-line arguments (get_command_line_arguments); for the
\* shell-link of a container stream, by the stream
StreamLnkView(l) ==
    IF l = "c"
    THEN [fields |-> [target_full_path |-> "C:\\a.txt", name_string |-> "raw"],
          name_string |-> Some("Notes"), command_line_arguments |-> NoneVal]
    ELSE [fields |-> [target_full_path |-> "C:\\b.txt"],
          name_string |-> NoneVal, command_line_arguments |-> Some("-x")]

\* for an embedded shell-link, by its bytes
BlobLnkView(l) ==
    IF l = LnkBlob
    THEN [fields |-> [target_full_path |-> "C:\\app.exe",
                      command_line_arguments |-> "raw"],
          name_string |-> Some("Task"), command_line_arguments |-> NoneVal]
    ELSE [fields |-> [target_full_path |-> "C:\\new.exe"],
          name_string |-> NoneVal,
          command_line_arguments |-> Some("--new")]

\* HashMap::new()
EmptyMap == [x \in {} |-> ""]

\* an insert that leaves the value of an existing key alone
InsertIfAbsent(m, k, v) ==
    [x \in DOMAIN m \cup {k} |-> IF x \in DOMAIN m THEN m[x] ELSE v]

\* HashMap::insert: the value of an existing key is replaced
Insert(m, k, v) == [x \in DOMAIN m \cup {k} |-> IF x = k THEN v ELSE m[x]]

\* `match .. { Some(s) => s.to_string(), None => String::from("") }`
OrEmpty(o) == IF o = NoneVal THEN "" ELSE o.Some

\* the mapping of one decoded shell-link: destlist.rs 341-354 and
\* custom_destinations.rs 302-316
LnkNormalized(v) ==
    Insert(Insert(v.fields, "name_string", OrEmpty(v.name_string)),
           "command_line_arguments", OrEmpty(v.command_line_arguments))

\* Normalize for DestListEntry
DestListEntry_normalize(entry) ==
    IF entry.lnk = NoneVal THEN EmptyMap
    ELSE LnkNormalized(StreamLnkView(entry.lnk.Some))

\* the entries without a shell-link left out of the output
RECURSIVE DestList_normalize_skipping(_)
DestList_normalize_skipping(es) ==
    IF es = <<>> THEN <<>>
    ELSE (IF es[1].lnk = NoneVal THEN <<>>
          ELSE <<DestListEntry_normalize(es[1])>>)
           \o DestList_normalize_skipping(Tail(es))

\* _Normalize for DestList
DestList_normalize(es) == [i \in 1..Len(es) |-> DestListEntry_normalize(es[i])]

\* `if let Some(lnks) = &entry.entries`
HasEntries(cat) == cat.entries # NoneVal

\* one mapping per category, of its first shell-link
RECURSIVE CustomDestinations_flaten_first(_)
CustomDestinations_flaten_first(cats) ==
    IF cats = <<>> THEN <<>>
    ELSE (IF HasEntries(cats[1]) /\ cats[1].entries.Some # <<>>
          THEN <<LnkNormalized(BlobLnkView(cats[1].entries.Some[1]))>>
          ELSE <<>>)
           \o CustomDestinations_flaten_first(Tail(cats))

\* Flaten for CustomDestinations
RECURSIVE CustomDestinations_flaten(_)
CustomDestinations_flaten(cats) ==
    IF cats = <<>> THEN <<>>
    ELSE (IF HasEntries(cats[1])
          THEN [i \in 1..Len(cats[1].entries.Some) |->
                  LnkNormalized(BlobLnkView(cats[1].entries.Some[i]))]
          ELSE <<>>)
           \o CustomDestinations_flaten(Tail(cats))

\* Flaten for JumplistParser: the mappings of the payload, each with the
\* source path added
JumplistParser_flaten(jl) ==
    LET maps == IF jl.type = "Automatic"
                THEN DestList_normalize(jl.data.entries)
                ELSE CustomDestinations_flaten(jl.data.entries)
    IN  [i \in 1..Len(maps) |->
           Insert(maps[i], "jumplist_file_path", OrEmpty(jl.source_path))]

\* normalize() called on the DestList returned
DestListNormalize ==
    /\ op = "DestList" /\ pc = "done"
    /\ result.status = "Ok" /\ flat = NoneVal
    /\ flat' = Some(DestList_normalize(result.entries))
    /\ UNCHANGED <<op, file, stream, lnks, oracle, input, pc, pos, header,
                   entries, decoded, opened, categories, cat_i, lnk_invoked,
                   result, jl_result>>

\* flaten() called on the CustomDestinations returned
CustomFlaten ==
    /\ op \in {"Custom", "CustomPath"} /\ pc = "done"
    /\ result.status = "Ok" /\ flat = NoneVal
    /\ flat' = Some(CustomDestinations_flaten(result.entries))
    /\ UNCHANGED <<op, file, stream, lnks, oracle, input, pc, pos, header,
                   entries, decoded, opened, categories, cat_i, lnk_invoked,
                   result, jl_result>>

\* flaten() called on the JumplistParser returned
JumplistFlaten ==
    /\ op \in {"Jumplist", "Path"} /\ pc = "done"
    /\ jl_result.status = "Ok" /\ flat = NoneVal
    /\ flat' = Some(JumplistParser_flaten(jl_result))
    /\ UNCHANGED <<op, file, stream, lnks, oracle, input, pc, pos, header,
                   entries, decoded, opened, categories, cat_i, lnk_invoked,
                   result, jl_result>>

Next ==
    \/ DestListBegin
    \/ DestListEntryStep
    \/ DestListEntryPanic
    \/ DestListFinish
    \/ HeaderFromPath
    \/ CustomFromPath
    \/ CustomBegin
    \/ CustomCategoryStep
    \/ CustomCategoryErr
    \/ CustomCategoryPanic
    \/ CustomFinish
    \/ JumplistAutomatic
    \/ JumplistCustom
    \/ JumplistWrap
    \/ PathDispatch
    \/ PathFinish
    \/ DestListNormalize
    \/ CustomFlaten
    \/ JumplistFlaten

Spec == Init /\ [][Next]_vars

\* DestList::from_reader alone, a call that keeps running until it is over
DestListNext ==
    \/ DestListBegin
    \/ DestListEntryStep
    \/ DestListEntryPanic
    \/ DestListFinish
    \/ DestListNormalize

\* the streams of InitDestList of two versions, cut at three places
LiveCuts == {0, 60, 113}

InitDestListLive ==
    /\ InitDestList
    /\ input.version \in {W(1), W(2)}
    /\ input.cut \in LiveCuts

\* one iteration of the entry loop, whatever its outcome
DestListLoop ==
    \/ DestListEntryStep
    \/ DestListEntryPanic
    \/ DestListFinish

\* a call that was made runs: weak fairness of its first step and of the
\* loop body. The loop body is enabled exactly in the states of the loop
\* (an entry decodes or fails to, and every outcome changes the state), so
\* its weak fairness is written with that condition spelled out.
DestListFair ==
    /\ WF_vars(DestListBegin)
    /\ ([]<>(pc # "dl_loop") \/ []<><<DestListLoop>>_vars)

DestListSpec ==
    /\ (InitDestListLive \/ InitCountedDestList \/ InitShortDestList)
    /\ [][DestListNext]_vars
    /\ DestListFair

\* CustomDestinations::from_reader alone, and flaten on what it returned
CustomNext ==
    \/ CustomBegin
    \/ CustomCategoryStep
    \/ CustomCategoryErr
    \/ CustomCategoryPanic
    \/ CustomFinish
    \/ CustomFlaten

CustomSpec == InitCustom /\ [][CustomNext]_vars

TypeOK ==
    /\ op \in {"DestList", "Custom", "Jumplist", "Path", "CustomPath",
              "HeaderPath"}
    /\ pc \in {"dl_begin", "dl_loop", "hp_begin", "cp_begin", "cd_begin",
               "cd_loop",
               "jl_begin", "jl_wrap", "path_begin", "path_wrap", "done"}
    /\ result.status \in {"Running", "Ok", "Err", "Panic"}
    /\ jl_result.status \in {"Running", "Ok", "Err", "Panic"}

\* ------------------------------------------------------------------------
\* Properties
\* ------------------------------------------------------------------------
\* the category a record laid out by EncCat stands for
CatOf(d) ==
    IF d.type = W(0)
    THEN [type |-> "Custom", name |-> Some(d.name),
          num_of_entries |-> Some(W(Len(d.lnks))),
          entries |-> Some([i \in 1..Len(d.lnks) |-> d.lnks[i].blob]),
          id |-> NoneVal]
    ELSE IF d.type = W(1)
    THEN [type |-> "Known", name |-> NoneVal, num_of_entries |-> NoneVal,
          id |-> Some(IF d.id = <<1, 0, 0, 0>> THEN "Frequent"
                      ELSE IF d.id = <<2, 0, 0, 0>> THEN "Recent"
                      ELSE IF d.id = <<255, 255, 255, 255>> THEN "None"
                      ELSE [Unknown |-> I32Val(d.id)]),
          entries |-> NoneVal]
    ELSE [type |-> "Task", name |-> NoneVal,
          num_of_entries |-> Some(W(Len(d.lnks))),
          entries |-> Some([i \in 1..Len(d.lnks) |-> d.lnks[i].blob]),
          id |-> NoneVal]

\* the offset at which the i-th record of the input starts
RecordStart(cs, i) == 12 + Len(EncCats(SubSeq(cs, 1, i - 1)))

\* a record that decodes without an error when the stream holds it in full
CleanCat(d) ==
    /\ d.type \in {W(0), W(1), W(2)}
    /\ d.type # W(1) =>
         \A j \in 1..Len(d.lnks) : d.lnks[j] \in {GoodLnk, GoodLnk2}

CustomDone == op = "Custom" /\ pc = "done"
DestListDone == op = "DestList" /\ pc = "done"

\* C1: an Ok result of CustomDestinations::from_reader holds exactly
\* header.num_of_cat categories, and the i-th is the category of the i-th
\* record of the stream, so the order of the records decides the order of
\* the output and nothing decides its length but the count.
C1_CategoriesInFileOrder ==
    (CustomDone /\ result.status = "Ok") =>
        /\ U32Cmp(W(Len(result.entries)), result.header.num_of_cat) = 0
        /\ Len(result.entries) = input.declared
        /\ Len(result.entries) <= Len(input.cats)
        /\ \A i \in 1..Len(result.entries) :
             result.entries[i] = CatOf(input.cats[i])

C1_Witness ==
    /\ CustomDone /\ result.status = "Ok"
    /\ Len(result.entries) = 2
    /\ result.entries[1].type = "Custom"
    /\ result.entries[2].type = "Known"

\* C2: a DestList stream cut inside an entry decodes to Ok with exactly the
\* complete entries that precede the cut; the cut entry is not returned.
\* Stated for a listing that holds the DestList stream alone, so that the
\* header is decoded and no stream is opened for correlation.
C2_TruncatedEntryNotReturned ==
    ( /\ DestListDone /\ input.cut > 0
      /\ dlist_size(lnks) # 0 /\ Len(lnks.entries) = 1 ) =>
        /\ result.status = "Ok"
        /\ Len(result.entries) = Len(input.entries)
        /\ \A i \in 1..Len(result.entries) :
             result.entries[i].entry_number # PartialEntry.num

\* C3 as claimed: every two adjacent returned entries have strictly
\* decreasing entry numbers.
C3_StrictlyDescending ==
    (DestListDone /\ result.status = "Ok") =>
        \A i \in 1..(Len(result.entries) - 1) :
            U32Cmp(result.entries[i].entry_number,
                   result.entries[i + 1].entry_number) = 1

\* C3 as amended: the returned entries are in non-increasing order of
\* entry_number; two adjacent entries are equal in it only when the stream
\* held two entries with that number.
C3_Descending ==
    (DestListDone /\ result.status = "Ok") =>
        \A i \in 1..(Len(result.entries) - 1) :
            U32Cmp(result.entries[i].entry_number,
                   result.entries[i + 1].entry_number) \in {0, 1}

C3_Witness ==
    /\ DestListDone /\ result.status = "Ok"
    /\ Len(decoded) = 2
    /\ decoded[1].entry_number = W(5) /\ decoded[2].entry_number = W(12)
    /\ result.entries[1].entry_number = W(12)
    /\ result.entries[2].entry_number = W(5)

\* the entries of es with entry_number k, in their order in es
WithNumber(es, k) == SelectSeq(es, LAMBDA e : e.entry_number = k)

\* C4: the returned entries are the decoded entries, none dropped, added or
\* changed, and the entries of one entry_number keep their decoding order.
C4_StablePermutation ==
    (DestListDone /\ result.status = "Ok") =>
        /\ Len(result.entries) = Len(decoded)
        /\ \A i \in 1..Len(decoded) :
             WithNumber(result.entries, decoded[i].entry_number)
               = WithNumber(decoded, decoded[i].entry_number)

C4_Witness ==
    /\ DestListDone /\ result.status = "Ok"
    /\ Len(decoded) = 3
    /\ decoded[1].entry_number = decoded[2].entry_number
    /\ decoded[1] # decoded[2]
    /\ result.entries = <<decoded[3], decoded[1], decoded[2]>>

\* the k-th embedded entry of the record d is the first that carries a
\* foreign class id, and the entries before it are accepted
ForeignAt(d, k) ==
    /\ d.type \in {W(0), W(2)}
    /\ k <= Len(d.lnks)
    /\ d.lnks[k] = BadGuid
    /\ \A j \in 1..(k - 1) : d.lnks[j] \in {GoodLnk, GoodLnk2}

\* the offset of the class id of the k-th embedded entry of a record whose
\* entries start at base: 16 bytes of class id and a shell link each
ClassIdAt(base, k) == base + (16 + Len(LnkBlob)) * (k - 1)

\* C5: a class id other than 00021401-0000-0000-C000-000000000046 before an
\* embedded entry of a Custom or of a Task category, the first entry of the
\* category or one after accepted entries, makes
\* CustomDestinations::from_reader return an error that names the GUID
\* read; the shell-link decoder is never called on an entry whose class id
\* differs, and no category is returned.
C5_ForeignClassIdRejected ==
    /\ op = "Custom" =>
         \A q \in lnk_invoked :
             GuidToString(SubSeq(stream, q - 15, q)) = LnkClsid
    /\ CustomDone =>
         \A i \in 1..Len(input.cats) :
           \A k \in 1..2 :
             ( /\ i <= input.declared
               /\ \A j \in 1..(i - 1) : CleanCat(input.cats[j])
               /\ ForeignAt(input.cats[i], k)
               /\ input.cut >=
                    ClassIdAt(LnksBase(input.cats[i],
                                       RecordStart(input.cats, i)), k) + 16 )
             => \E base \in {LnksBase(input.cats[i],
                                      RecordStart(input.cats, i))} :
                  /\ result.status = "Err"
                  /\ result.kind = "FileStructure"
                  /\ result.text =
                       IF input.cats[i].type = W(0)
                       THEN "Custom Category with unknown entry GUID"
                       ELSE "Task Category with unknown entry GUID"
                  /\ result.line = IF input.cats[i].type = W(0) THEN 194
                                   ELSE 260
                  /\ result.arg = "00021402-0000-0000-C000-000000000046"
                  /\ pos = ClassIdAt(base, k) + 16
                  /\ result.arg = GuidToString(SubSeq(stream, pos - 15, pos))
                  /\ pos \notin lnk_invoked
                  /\ \A j \in 1..(k - 1) :
                       ClassIdAt(base, j) + 16 \in lnk_invoked
                  /\ Len(categories) = i - 1

\* a Task category whose second entry carries the foreign class id, after
\* a category that decoded: the first entry was handed to the shell-link
\* decoder, the second was not
C5_Witness ==
    /\ CustomDone /\ result.status = "Err"
    /\ Len(input.cats) = 2
    /\ input.cats[2] = [type |-> W(2), lnks |-> <<GoodLnk, BadGuid>>]
    /\ result.text = "Task Category with unknown entry GUID"
    /\ result.arg = "00021402-0000-0000-C000-000000000046"
    /\ Len(categories) = 1
    /\ pos - 21 \in lnk_invoked
    /\ pos \notin lnk_invoked

\* a Task category whose only entry carries the foreign class id
C5_WitnessTask ==
    /\ CustomDone /\ result.status = "Err"
    /\ input.cats = <<[type |-> W(2), lnks |-> <<BadGuid>>]>>
    /\ result.text = "Task Category with unknown entry GUID"
    /\ result.line = 260
    /\ lnk_invoked = {}

\* a Custom category whose only entry carries the foreign class id
C5_WitnessCustom ==
    /\ CustomDone /\ result.status = "Err"
    /\ result.text = "Custom Category with unknown entry GUID"
    /\ result.arg = "00021402-0000-0000-C000-000000000046"
    /\ Len(categories) = 1

\* C6: a decoded entry is not pinned exactly when its pin field is
\* 0xFFFFFFFF; every other value, 0 included, gives pinned.
C6_PinnedSentinel ==
    (op = "DestList" /\ input.cut >= 0 /\ dlist_size(lnks) # 0) =>
        \A i \in 1..Len(decoded) :
            i <= Len(input.entries) =>
                (decoded[i].pined
                   <=> input.entries[i].pin # <<255, 255, 255, 255>>)

C6_Witness ==
    /\ op = "DestList" /\ dlist_size(lnks) # 0
    /\ Len(decoded) = 2 /\ Len(input.entries) = 2
    /\ input.entries[1].pin = <<255, 255, 255, 255>> /\ ~decoded[1].pined
    /\ input.entries[2].pin = <<0, 0, 0, 0>> /\ decoded[2].pined

\* C7: a record of discriminant 1 decodes to a Known category whose id is
\* Frequent for 1, Recent for 2, None for -1 and Unknown(x) for any other x;
\* header (3, 1), one record (1, 2) and a footer decode to one Known{Recent}.
C7_KnownCategoryId ==
    /\ op = "Custom" =>
         \A i \in 1..Len(categories) :
             (i <= Len(input.cats) /\ input.cats[i].type = W(1)) =>
                 /\ categories[i].type = "Known"
                 /\ categories[i].id =
                      Some(IF input.cats[i].id = W(1) THEN "Frequent"
                           ELSE IF input.cats[i].id = W(2) THEN "Recent"
                           ELSE IF input.cats[i].id = <<255, 255, 255, 255>>
                           THEN "None"
                           ELSE [Unknown |-> 7])
    /\ ( /\ CustomDone
         /\ stream = W(3) \o W(1) \o W(0) \o W(1) \o W(2) \o Footer )
       => /\ result.status = "Ok"
          /\ result.header.version = W(3)
          /\ result.entries =
               <<[type |-> "Known", name |-> NoneVal,
                  num_of_entries |-> NoneVal, id |-> Some("Recent"),
                  entries |-> NoneVal]>>

C7_Witness ==
    /\ CustomDone
    /\ stream = W(3) \o W(1) \o W(0) \o W(1) \o W(2) \o Footer
    /\ result.status = "Ok"
    /\ result.entries[1].id = Some("Recent")

EmptyDestList == [status |-> "Ok", header |-> ZeroHeader, entries |-> <<>>]

\* C8: without a DestList stream, with one of zero length, or with an empty
\* stream and no listing, decoding succeeds with the zero header and no
\* entries; neither decoder reports an error.
C8_EmptyJumpList ==
    /\ (DestListDone /\ stream = <<>>) => result = EmptyDestList
    /\ ( /\ op = "Jumplist" /\ pc = "done"
         /\ file.type = "Automatic" /\ file.valid
         /\ ~HasDestListData(file.entries) )
       => /\ jl_result.status = "Ok"
          /\ jl_result.data = EmptyDestList

C8_Witness ==
    /\ op = "Jumplist" /\ pc = "done"
    /\ \E i \in 1..Len(file.entries) :
         file.entries[i].name = "DestList" /\ file.entries[i].len = 0
    /\ jl_result.status = "Ok"
    /\ jl_result.data.entries = <<>>

\* C9: a discriminant other than 0, 1, 2 makes the call fail at once: the
\* cursor stays right after the discriminant, the record is not skipped and
\* the categories decoded before it are not returned.
C9_UnknownDiscriminantFatal ==
    CustomDone =>
        \A i \in 1..Len(input.cats) :
            ( /\ i <= input.declared
              /\ \A j \in 1..(i - 1) : CleanCat(input.cats[j])
              /\ input.cats[i].type = W(3)
              /\ input.cut >= RecordStart(input.cats, i) + 4 )
            => /\ result = CDErr("FileStructure", "CatagoryType unknown",
                                 W(3), 157)
               /\ pos = RecordStart(input.cats, i) + 4
               /\ cat_i = i - 1
               /\ Len(categories) = i - 1

C9_Witness ==
    /\ CustomDone /\ result.status = "Err"
    /\ result.text = "CatagoryType unknown"
    /\ Len(categories) = 1
    /\ pos + 4 <= Len(stream)

\* C10: CustomDestinations::from_reader never panics: a failed field read or
\* shell-link decode is returned as an Err value.
C10_StrictNeverPanics ==
    op = "Custom" => result.status # "Panic"

\* the entry a record laid out by EncEntry decodes to, before correlation
IndexFieldsOf(d) ==
    [volume_droid |-> GuidToString(VolumeDroid),
     file_droid |-> GuidToString(FileDroid),
     volume_birth_droid |-> GuidToString(VolumeDroid),
     file_birth_droid |-> GuidToString(FileDroid),
     hostname |-> <<112, 99>>, entry_number |-> d.num, mtime |-> MTimeBytes,
     pined |-> d.pin # <<255, 255, 255, 255>>, path |-> d.path,
     lnk |-> NoneVal, entry_id |-> NoneVal]

\* the outcomes of the listed streams named as the ordinal w
OutcomesFor(w) ==
    { lnks.entries[j].outcome :
        j \in { k \in 1..Len(lnks.entries) :
                  lnks.entries[k].name = HexName(w) } }

\* a DestList call whose header is decoded and whose stream holds the
\* entries of the input in full
DestListRun == op = "DestList" /\ input.cut >= 0 /\ dlist_size(lnks) # 0

\* C11: an entry whose matching stream is opened and read but rejected by
\* the shell-link decoder is decoded with every index field as the stream
\* holds it and with lnk absent; the loop goes on to the entries after it and
\* the call returns Ok with the entry among those returned.
C11_RejectedLnkKeepsEntry ==
    DestListRun =>
        \A i \in 1..Len(input.entries) :
            OutcomesFor(input.entries[i].num) = {"lnk_err"} =>
                /\ i <= Len(decoded) =>
                     decoded[i] = IndexFieldsOf(input.entries[i])
                /\ pc = "done" =>
                     /\ result.status = "Ok"
                     /\ Len(decoded) >= Len(input.entries)
                     /\ \E k \in 1..Len(result.entries) :
                          result.entries[k] = IndexFieldsOf(input.entries[i])

C11_Witness ==
    /\ DestListRun /\ pc = "done" /\ result.status = "Ok"
    /\ Len(input.entries) = 2
    /\ OutcomesFor(input.entries[1].num) = {"lnk_err"}
    /\ opened = <<"5", "c">>
    /\ decoded[1].lnk = NoneVal /\ decoded[1].path = <<97>>
    /\ decoded[2].lnk = [Some |-> "c"]

\* C12: no failure of the correlation (open_stream, or read_to_end on the
\* stream opened) aborts the call: it never panics, it returns Ok, and every
\* entry of the stream is decoded, one whose stream failed with lnk absent.
C12_CorrelationNeverAborts ==
    /\ op = "DestList" => result.status # "Panic"
    /\ (DestListRun /\ pc = "done") =>
         /\ result.status = "Ok"
         /\ Len(decoded) >= Len(input.entries)
         /\ \A i \in 1..Len(input.entries) :
              OutcomesFor(input.entries[i].num) \subseteq
                  {"open_err", "read_err"}
              => decoded[i] = IndexFieldsOf(input.entries[i])

\* C14: normalize() of a DestList returns as many mappings as the DestList
\* has entries, the i-th made of the i-th entry: it is empty exactly when
\* that entry has no shell-link, and it otherwise carries the fields of that
\* entry's shell-link.
C14_OneMappingPerEntry ==
    (op = "DestList" /\ flat # NoneVal) =>
        /\ Len(flat.Some) = Len(result.entries)
        /\ \A i \in 1..Len(result.entries) :
             /\ DOMAIN flat.Some[i] = {} <=> result.entries[i].lnk = NoneVal
             /\ result.entries[i].lnk # NoneVal =>
                  flat.Some[i].target_full_path =
                    StreamLnkView(result.entries[i].lnk.Some)
                      .fields.target_full_path

C14_Witness ==
    /\ op = "DestList" /\ flat # NoneVal
    /\ Len(flat.Some) = 2
    /\ result.entries[1].lnk = Some("c") /\ DOMAIN flat.Some[1] # {}
    /\ result.entries[2].lnk = NoneVal /\ DOMAIN flat.Some[2] = {}

\* the number of shell-links in the entry lists of Custom and Task categories
RECURSIVE LnkCount(_)
LnkCount(cats) ==
    IF cats = <<>> THEN 0
    ELSE (IF cats[1].type \in {"Custom", "Task"}
          THEN Len(cats[1].entries.Some) ELSE 0) + LnkCount(Tail(cats))

\* the bytes of the shell-links laid out in the records ds, in stream order
RECURSIVE InputBlobs(_)
InputBlobs(ds) ==
    IF ds = <<>> THEN <<>>
    ELSE (IF ds[1].type \in {W(0), W(2)}
          THEN [i \in 1..Len(ds[1].lnks) |-> ds[1].lnks[i].blob]
          ELSE <<>>) \o InputBlobs(Tail(ds))

\* C15: flaten() of a CustomDestinations returns one mapping per embedded
\* shell-link: as many as the entry lists of its Custom and Task categories
\* hold together (a Known category and an empty list add none), the k-th
\* made of the k-th shell-link of the stream, categories in order and the
\* entries of a category in order.
C15_OneMappingPerLnk ==
    (op = "Custom" /\ flat # NoneVal) =>
        /\ Len(flat.Some) = LnkCount(result.entries)
        /\ Len(flat.Some) =
             Len(InputBlobs(SubSeq(input.cats, 1, Len(result.entries))))
        /\ \A k \in 1..Len(flat.Some) :
             flat.Some[k].target_full_path =
               BlobLnkView(InputBlobs(input.cats)[k]).fields.target_full_path

C15_Witness ==
    /\ op = "Custom" /\ flat # NoneVal
    /\ Len(result.entries) = 2
    /\ result.entries[1].type = "Task" /\ result.entries[2].type = "Custom"
    /\ Len(flat.Some) = 3
    /\ flat.Some[1].target_full_path = "C:\\app.exe"
    /\ flat.Some[2].target_full_path = "C:\\new.exe"
    /\ flat.Some[3].target_full_path = "C:\\app.exe"

\* a Known category and a Task category without entries flatten to nothing
C15_WitnessNothing ==
    /\ op = "Custom" /\ flat = Some(<<>>)
    /\ Len(result.entries) = 2
    /\ result.entries[1].type = "Known"
    /\ result.entries[2].type = "Task"
    /\ result.entries[2].entries = Some(<<>>)

\* the display name and the arguments of the shell-links of the inputs, by
\* target path, absent ones as ""
DerivedOf(target) ==
    IF target = "C:\\a.txt"
    THEN [name_string |-> "Notes", command_line_arguments |-> ""]
    ELSE IF target = "C:\\b.txt"
    THEN [name_string |-> "", command_line_arguments |-> "-x"]
    ELSE IF target = "C:\\app.exe"
    THEN [name_string |-> "Task", command_line_arguments |-> ""]
    ELSE [name_string |-> "", command_line_arguments |-> "--new"]

\* C16: a non-empty mapping of DestList normalize() or CustomDestinations
\* flaten() has the keys name_string and command_line_arguments, each with
\* the shell-link's value or "" without one, also where the shell-link
\* decoder's own field set has a key of that name; the other keys of that
\* field set are kept.
C16_DerivedKeys ==
    (op \in {"DestList", "Custom"} /\ flat # NoneVal) =>
        \A k \in 1..Len(flat.Some) :
            DOMAIN flat.Some[k] # {} =>
                /\ DOMAIN flat.Some[k] =
                     {"target_full_path", "name_string",
                      "command_line_arguments"}
                /\ flat.Some[k].name_string =
                     DerivedOf(flat.Some[k].target_full_path).name_string
                /\ flat.Some[k].command_line_arguments =
                     DerivedOf(flat.Some[k].target_full_path)
                       .command_line_arguments

\* the decoder's own name_string of stream "c" is replaced
C16_Witness ==
    /\ op = "DestList" /\ flat # NoneVal
    /\ Len(flat.Some) = 1
    /\ result.entries[1].lnk = Some("c")
    /\ StreamLnkView("c").fields.name_string = "raw"
    /\ flat.Some[1].name_string = "Notes"
    /\ flat.Some[1].command_line_arguments = ""

\* the decoder's own command_line_arguments of an embedded entry is replaced
C16_WitnessCustom ==
    /\ op = "Custom" /\ flat # NoneVal
    /\ Len(flat.Some) = 2
    /\ flat.Some[1].name_string = "Task"
    /\ flat.Some[1].command_line_arguments = ""
    /\ flat.Some[2].name_string = ""
    /\ flat.Some[2].command_line_arguments = "--new"

\* C17: on a non-empty stream the header is decoded first, with or without
\* a listing: once the call is past its beginning, either it has failed on a
\* stream too short for the three header fields, or the header is the first
\* twelve bytes of the stream, the cursor has passed offset 32 and the first
\* entry decoded is the one that lies at offset 32 in the layout of the
\* stream's version.
C17_HeaderDecodedFirst ==
    (op = "DestList" /\ stream # <<>> /\ pc \in {"dl_loop", "done"}) =>
        IF Len(stream) < 12
        THEN result.status = "Err" /\ result.kind = "DestListHeader"
        ELSE /\ header = [version |-> SubSeq(stream, 1, 4),
                          number_of_entries |-> SubSeq(stream, 5, 8),
                          number_of_pinned_entries |-> SubSeq(stream, 9, 12)]
             /\ pos >= 32
             /\ (decoded # <<>> /\ input.entries # <<>>) =>
                  /\ decoded[1].entry_number = input.entries[1].num
                  /\ decoded[1].path = input.entries[1].path

\* the stream names of the entry numbers of the inputs
NameOfNumber(w) ==
    IF w = <<5, 0, 0, 0>> THEN "5"
    ELSE IF w = <<12, 0, 0, 0>> THEN "c"
    ELSE "12c"

Range(f) == { f[j] : j \in DOMAIN f }

ListedNames == { lnks.entries[j].name : j \in 1..Len(lnks.entries) }

\* C18: the shell-link of an entry comes from the listed stream named as the
\* entry number in lowercase hexadecimal digits, bare; an entry without
\* such a stream, and any entry decoded without a listing, has none; and
\* open_stream is asked only for names that match an entry decoded.
C18_LnkByHexName ==
    op = "DestList" =>
        /\ ~lnks.some =>
             /\ opened = <<>>
             /\ \A i \in 1..Len(decoded) : decoded[i].lnk = NoneVal
        /\ dlist_size(lnks) # 0 =>
             /\ \A i \in 1..Len(decoded) :
                  /\ decoded[i].lnk # NoneVal =>
                       /\ decoded[i].lnk.Some \in ListedNames
                       /\ decoded[i].lnk.Some =
                            NameOfNumber(decoded[i].entry_number)
                  /\ NameOfNumber(decoded[i].entry_number) \notin ListedNames
                       => decoded[i].lnk = NoneVal
                  /\ CfbEntry(NameOfNumber(decoded[i].entry_number), 9, "ok")
                         \in Range(lnks.entries)
                       => decoded[i].lnk =
                            Some(NameOfNumber(decoded[i].entry_number))
             /\ \A k \in 1..Len(opened) :
                  /\ opened[k] \in ListedNames
                  /\ opened[k] \in
                       { NameOfNumber(input.entries[i].num) :
                           i \in 1..Len(input.entries) }

C18_Witness ==
    /\ op = "DestList" /\ pc = "done" /\ result.status = "Ok"
    /\ Len(decoded) = 2
    /\ decoded[1].entry_number = <<12, 0, 0, 0>>
    /\ decoded[1].lnk = Some("c")
    /\ decoded[2].entry_number = <<5, 0, 0, 0>>
    /\ decoded[2].lnk = NoneVal
    /\ opened = <<"c", "5">>
    /\ ListedNames = {"DestList", "c", "5"}

\* the number 12 beside streams named "C", "0c" and "12"
C18_WitnessNoMatch ==
    /\ op = "DestList" /\ pc = "done" /\ result.status = "Ok"
    /\ Len(decoded) = 1
    /\ decoded[1].entry_number = <<12, 0, 0, 0>>
    /\ decoded[1].lnk = NoneVal
    /\ opened = <<>>
    /\ "C" \in ListedNames

\* after k records of either variant the cursor is 4 bytes past the end of
\* the k-th, where the next discriminant is read
FooterSkippedAfterEach ==
    (op = "Custom" /\ pc = "cd_loop" /\ cat_i <= Len(input.cats)) =>
        pos = RecordStart(input.cats, cat_i + 1)

\* the stream ends inside the 4 footer bytes of the last declared record,
\* all records being well-formed otherwise
FooterCut ==
    /\ input.cats # <<>>
    /\ input.declared = Len(input.cats)
    /\ \A j \in 1..Len(input.cats) : CleanCat(input.cats[j])
    /\ input.cut >= RecordStart(input.cats, Len(input.cats) + 1) - 4
    /\ input.cut < RecordStart(input.cats, Len(input.cats) + 1)

\* C19: every record, the last included, is followed by a skip of exactly 4
\* bytes before the next discriminant is read, and a stream whose last
\* record lacks footer bytes is reported as a structural error.
C19_FooterRequired ==
    /\ FooterSkippedAfterEach
    /\ (CustomDone /\ FooterCut) =>
         result.status = "Err" /\ result.kind = "FileStructure"

\* the bytes an entry with a path of n code units takes: 8 reserved, four
\* GUIDs, hostname, entry_number, 8 reserved, mtime, pin, path length, path;
\* and 16 + 4 reserved bytes more in the layout of the versions above 1
EntryBytes(version, n) ==
    8 + 64 + 16 + 4 + 8 + 8 + 4 + 2 + 2 * n
      + (IF version \in {<<0, 0, 0, 0>>, <<1, 0, 0, 0>>} THEN 0 ELSE 20)

RECURSIVE EntriesBytes(_, _)
EntriesBytes(version, ds) ==
    IF ds = <<>> THEN 0
    ELSE EntryBytes(version, Len(ds[1].path)) + EntriesBytes(version, Tail(ds))

\* C20: the version matters to an entry only as version > 1: under versions
\* 0 and 1 an entry takes its fields' bytes alone, under any other version
\* 20 bytes more (16 before the path length, 4 after the path), and under
\* every version the fields come out as the stream holds them.
C20_VersionGatesLayout ==
    (DestListRun /\ pc = "dl_loop") =>
        \A k \in 0..Len(input.entries) :
            Len(decoded) = k =>
                /\ header.version = input.version
                /\ pos = 32 + EntriesBytes(input.version,
                                           SubSeq(input.entries, 1, k))
                /\ \A i \in 1..k :
                     [decoded[i] EXCEPT !.lnk = NoneVal]
                       = IndexFieldsOf(input.entries[i])

C20_Witness ==
    /\ DestListRun /\ pc = "dl_loop"
    /\ input.version = <<0, 1, 0, 0>>
    /\ Len(decoded) = 2 /\ Len(input.entries) = 2
    /\ decoded[1].path = <<97>> /\ decoded[2].path = <<>>
    /\ pos = 32 + 136 + 134

\* the same two entries under version 1 end 40 bytes earlier
C20_WitnessOld ==
    /\ DestListRun /\ pc = "dl_loop"
    /\ input.version = <<1, 0, 0, 0>>
    /\ Len(decoded) = 2 /\ Len(input.entries) = 2
    /\ decoded[1].path = <<97>> /\ decoded[2].path = <<>>
    /\ pos = 32 + 116 + 114

\* the stream ends inside the name of its i-th record, a Custom record whose
\* name length was read, the records before it being well-formed
NameCutAt(i) ==
    /\ i <= Len(input.cats) /\ i <= input.declared
    /\ \A j \in 1..(i - 1) : CleanCat(input.cats[j])
    /\ input.cats[i].type = <<0, 0, 0, 0>>
    /\ input.cut >= RecordStart(input.cats, i) + 6
    /\ input.cut < RecordStart(input.cats, i) + 6 + 2 * Len(input.cats[i].name)

\* C21: a Custom category whose name could not be read is never produced:
\* every Custom category decoded has its name, the one the stream holds,
\* and a stream that ends inside the name of a record gives no Ok result
\* and no category for that record.
C21_NoNamelessCustom ==
    /\ op = "Custom" =>
         \A i \in 1..Len(categories) :
             categories[i].type = "Custom" =>
                 /\ categories[i].name # NoneVal
                 /\ i <= Len(input.cats) =>
                      categories[i].name = Some(input.cats[i].name)
    /\ (CustomDone /\ result.status = "Ok") =>
         \A i \in 1..Len(result.entries) :
             result.entries[i].type = "Custom" =>
                 result.entries[i].name # NoneVal
    /\ CustomDone =>
         \A i \in 1..Len(input.cats) :
             NameCutAt(i) =>
                 /\ result.status # "Ok"
                 /\ Len(categories) = i - 1

\* the stream ends after the first byte of the name of its second record
C21_Witness ==
    /\ CustomDone /\ NameCutAt(2)
    /\ input.cut = RecordStart(input.cats, 2) + 7
    /\ result = [status |-> "Panic", line |-> 169]
    /\ Len(categories) = 1

\* the offset of the i-th entry of a stream whose header was decoded
EntryOffset(i) ==
    32 + EntriesBytes(input.version,
                      SubSeq(input.entries \o <<PartialEntry>>, 1, i - 1))

\* the entry e with its shell-link taken off
WithoutLnk(e) == [e EXCEPT !.lnk = NoneVal]

\* C22: correlation touches the lnk field alone: every entry decoded, and
\* so every entry returned, is but for lnk the value
\* DestListEntry::from_reader gives at the entry's offset, entry_id absent.
C22_CorrelationFrame ==
    DestListRun =>
        /\ \A i \in 1..Len(decoded) :
             /\ WithoutLnk(decoded[i]) =
                  DestListEntry_from_reader(stream, EntryOffset(i),
                                            header.version).val
             /\ decoded[i].entry_id = NoneVal
        /\ (pc = "done" /\ result.status = "Ok") =>
             \A k \in 1..Len(result.entries) :
                 /\ result.entries[k].entry_id = NoneVal
                 /\ \E i \in 1..Len(decoded) :
                      /\ result.entries[k] = decoded[i]
                      /\ WithoutLnk(result.entries[k]) =
                           DestListEntry_from_reader(stream, EntryOffset(i),
                                                     header.version).val

C22_Witness ==
    /\ DestListRun /\ pc = "done" /\ result.status = "Ok"
    /\ Len(result.entries) = 2
    /\ result.entries[1].lnk = Some("c")
    /\ WithoutLnk(result.entries[1]) = IndexFieldsOf(input.entries[2])
    /\ result.entries[1].entry_id = NoneVal
    /\ result.entries[2] = IndexFieldsOf(input.entries[1])

\* the bytes an entry decode reads before the path: four GUIDs, hostname,
\* entry_number, mtime, pin and path length
EntryReadBytes == 64 + 16 + 4 + 8 + 4 + 2

\* a step that decodes an entry finds the bytes of its reads in the stream
\* and moves the cursor forward by at least as many
DecodeConsumes ==
    Len(decoded') > Len(decoded) =>
        /\ pos + EntryReadBytes <= Len(stream)
        /\ pos' >= pos + EntryReadBytes

\* a step that leaves the loop with a value to return is the one taken on a
\* failed entry decode (the loop has no other break; the unwrap of line 305
\* ends the call inside an iteration)
LoopBreaksOnFailedDecode ==
    (pc = "dl_loop" /\ pc' # "dl_loop" /\ result'.status # "Panic") =>
        /\ ~DestListEntry_from_reader(stream, pos, header.version).ok
        /\ result'.status = "Ok"

\* with fewer bytes left than the reads of an entry need, the loop is over
LoopOverWhenShort ==
    (pc = "dl_loop" /\ Len(stream) - pos < EntryReadBytes) =>
        pc' = "done"

\* C23: DestList::from_reader terminates: every entry decoded consumes
\* bytes of the stream through its reads, the loop breaks on a failed entry
\* decode and on nothing else, it is over once the stream holds too few
\* bytes for the reads of an entry, and every call comes to its end.
C23_Terminates ==
    /\ [][DecodeConsumes /\ LoopBreaksOnFailedDecode
            /\ LoopOverWhenShort]_vars
    /\ <>(pc = "done")

\* a call that decoded two entries and stopped with too few bytes left
C23_Witness ==
    /\ op = "DestList" /\ pc = "done" /\ result.status = "Ok"
    /\ dlist_size(lnks) # 0
    /\ Len(decoded) = 2
    /\ pos >= 2 * EntryReadBytes
    /\ Len(stream) - pos < EntryReadBytes

\* what the entry loop makes of the bytes s from p on: the entries in
\* stream order, or the abort of line 305
RECURSIVE EntriesFrom(_, _, _, _, _)
EntriesFrom(s, p, version, listing, op_names) ==
    LET n == Correlated(DestListEntry_from_reader(s, p, version), listing,
                        op_names)
    IN  IF ~n.ok THEN [status |-> "Ok", entries |-> <<>>]
        ELSE IF n.panic THEN [status |-> "Panic"]
        ELSE LET rest == EntriesFrom(s, n.pos, version, listing, n.opened)
             IN  IF rest.status = "Panic" THEN rest
                 ELSE [status |-> "Ok",
                       entries |-> <<n.entry>> \o rest.entries]

\* the bytes of the stream after its 32-byte header
AfterHeader == SubSeq(stream, 33, Len(stream))

\* C24: the entry list DestList::from_reader returns is fixed by the bytes
\* after the header (with the version and the listing): the two counts of
\* the header bound nothing, so streams that differ in them alone decode
\* to the same entries, and the number of entries returned need not be
\* header.number_of_entries.
C24_HeaderCountsUnused ==
    (DestListRun /\ pc = "done" /\ Len(stream) >= 32) =>
        \E t \in {EntriesFrom(AfterHeader, 0, SubSeq(stream, 1, 4), lnks,
                               <<>>)} :
            /\ result.status = t.status
            /\ t.status = "Ok" =>
                  /\ result.entries = SortEntries(t.entries)
                  /\ Len(result.entries) = Len(t.entries)

\* two entries returned under a header that counts 0 entries and
\* 4294967295 pinned ones
C24_Witness ==
    /\ DestListRun /\ pc = "done" /\ result.status = "Ok"
    /\ header.number_of_entries = W(0)
    /\ header.number_of_pinned_entries = <<255, 255, 255, 255>>
    /\ Len(result.entries) = 2
    /\ Len(input.entries) = 2

\* one entry returned under a header that counts 5
C24_WitnessFewer ==
    /\ DestListRun /\ pc = "done" /\ result.status = "Ok"
    /\ header.number_of_entries = W(5)
    /\ Len(result.entries) = 1

\* the fields a category of each variant holds and leaves out
FieldShape(c) ==
    \/ /\ c.type = "Custom"
       /\ c.entries # NoneVal /\ c.num_of_entries # NoneVal
       /\ c.id = NoneVal
       /\ W(Len(c.entries.Some)) = c.num_of_entries.Some
    \/ /\ c.type = "Known"
       /\ c.id # NoneVal
       /\ c.name = NoneVal /\ c.num_of_entries = NoneVal
       /\ c.entries = NoneVal
    \/ /\ c.type = "Task"
       /\ c.entries # NoneVal /\ c.num_of_entries # NoneVal
       /\ c.name = NoneVal /\ c.id = NoneVal
       /\ W(Len(c.entries.Some)) = c.num_of_entries.Some

\* C25: every category CustomDestinations::from_reader produces, and so
\* every category of an Ok result, has the field shape of its variant:
\* Custom holds entries and num_of_entries and no id; Known holds id and
\* no name, num_of_entries or entries; Task holds entries and
\* num_of_entries and no name or id; a Custom or Task category holds as
\* many entries as its num_of_entries says.
C25_FieldShape ==
    /\ \A i \in 1..Len(categories) : FieldShape(categories[i])
    /\ (op = "Custom" /\ result.status = "Ok") =>
          /\ result.entries = categories
          /\ \A i \in 1..Len(result.entries) : FieldShape(result.entries[i])

\* an Ok result of a Custom category with one entry and a Task category
\* with two
C25_Witness ==
    /\ CustomDone /\ result.status = "Ok"
    /\ Len(result.entries) = 2
    /\ result.entries[1].type = "Custom"
    /\ result.entries[1].num_of_entries = Some(W(1))
    /\ Len(result.entries[1].entries.Some) = 1
    /\ result.entries[2].type = "Task"
    /\ result.entries[2].num_of_entries = Some(W(2))
    /\ Len(result.entries[2].entries.Some) = 2

\* an Ok result of a Known category and a Task category without entries
C25_WitnessKnown ==
    /\ CustomDone /\ result.status = "Ok"
    /\ Len(result.entries) = 2
    /\ result.entries[1].type = "Known"
    /\ result.entries[1].id = Some("Recent")
    /\ result.entries[2].type = "Task"
    /\ result.entries[2].entries = Some(<<>>)

\* the paths of PathSet by the suffix of their file name
AutomaticPaths == {NameAuto, NameBoth, <<"d", "/">> \o NameAuto}
CustomPaths == {NameCustom, NameBare}

PathDone == op = "Path" /\ pc = "done"

\* C13: from_path picks the decoder by the end of the file name and by
\* nothing else: '.automaticDestinations-ms' runs the Automatic decoder and
\* '.customDestinations-ms' the Custom one on whatever the file holds, and a
\* readable file of any other name gets the FileType error with its name,
\* no decoder having read a byte.
C13_DecoderByFileName ==
    (PathDone /\ input.io = "ok") =>
        /\ input.path \in AutomaticPaths =>
             /\ file.type = "Automatic"
             /\ categories = <<>> /\ cat_i = 0
             /\ IF input.content.valid
                THEN /\ jl_result.status = "Ok"
                     /\ jl_result.type = "Automatic"
                     /\ jl_result.data.header.version = W(3)
                     /\ Len(jl_result.data.entries) = 1
                ELSE jl_result = CDErr("FileStructure",
                                       "Unable to parse the file", NoneVal, 87)
        /\ input.path \in CustomPaths =>
             /\ file.type = "Custom"
             /\ decoded = <<>> /\ opened = <<>>
             /\ IF input.content.raw = <<>>
                THEN jl_result = CDErr("FileStructure", EofText, NoneVal, 51)
                ELSE IF input.content.valid
                THEN jl_result = CDErr("FileStructure",
                                       "CatagoryType unknown",
                                       <<3, 0, 254, 255>>, 157)
                ELSE /\ jl_result.status = "Ok"
                     /\ jl_result.type = "Custom"
                     /\ Len(jl_result.data.entries) = 1
                     /\ jl_result.data.entries[1].type = "Task"
        /\ input.path \notin (AutomaticPaths \cup CustomPaths) =>
             /\ jl_result.status = "Err"
             /\ jl_result.kind = "FileType"
             /\ jl_result.arg \in {NameBak, NameLower, NameTxt}
             /\ file = NoFile /\ stream = <<>> /\ pos = 0
             /\ header = NoneVal /\ result = Running
             /\ decoded = <<>> /\ categories = <<>> /\ lnk_invoked = {}

\* a compound file named *.automaticDestinations-ms.bak is not decoded
C13_Witness ==
    /\ PathDone /\ input.io = "ok"
    /\ input.path = NameBak /\ input.content.valid
    /\ jl_result = CDErr("FileType", "", NameBak, 212)

\* a compound file under a Custom name is decoded as CustomDestinations
C13_WitnessMismatch ==
    /\ PathDone /\ input.io = "ok"
    /\ input.path = NameCustom /\ input.content.valid
    /\ jl_result.status = "Err" /\ jl_result.line = 157

====
